---- MODULE Spec2Model ----
(***************************************************************************)
(* code-monkey: the presenter (client) and the agent (server) of the       *)
(* remote-control session protocol, the length-prefixed JSON codec both    *)
(* use, and the grouper that turns a script into action blocks.            *)
(*                                                                         *)
(* Strings are sequences of bytes (a Rust String is UTF-8), an Option is   *)
(* the empty sequence (None) or a one-element sequence (Some).             *)
(***************************************************************************)
EXTENDS Integers, Sequences, FiniteSets, TLC

\* ------------------------------------------------------------------ bounds

\* Longest script (number of directives) Presenter::new is given.
MaxScriptLen == 2
\* Number of TCP connections the presenter may open in one run.
MaxConns == 2
\* Longest sequence of messages encoded into one buffer.
MaxCodecMsgs == 2
\* Longest script (number of directives) group_into_blocks is given alone.
MaxGroupLen == 4

\* --------------------------------------------------------- program constants

\* FrontMatter::default
DefaultTypingSpeed == 40
DefaultTypingVariance == 15
\* Agent::handle_connection
MAX_IDLE_TIMEOUTS == 10

\* ------------------------------------------------------------------ strings

\* ASCII of  mock failure
StrMockFailure == <<109, 111, 99, 107, 32, 102, 97, 105, 108, 117, 114, 101>>
\* ASCII of  Unexpected message type
StrUnexpectedMessageType == <<85, 110, 101, 120, 112, 101, 99, 116, 101, 100, 32, 109, 101, 115, 115, 97, 103, 101, 32, 116, 121, 112, 101>>
\* ASCII of  Unknown agent error
StrUnknownAgentError == <<85, 110, 107, 110, 111, 119, 110, 32, 97, 103, 101, 110, 116, 32, 101, 114, 114, 111, 114>>
\* ASCII of  Unexpected response from agent
StrUnexpectedResponse == <<85, 110, 101, 120, 112, 101, 99, 116, 101, 100, 32, 114, 101, 115, 112, 111, 110, 115, 101, 32, 102, 114, 111, 109, 32, 97, 103, 101, 110, 116>>
\* ASCII of  one
StrOne == <<111, 110, 101>>
\* ASCII of  two
StrTwo == <<116, 119, 111>>

None == <<>>
Some(x) == <<x>>

\* --------------------------------------------------------------- directives
\* parser/types.rs: enum Directive.  k is the variant, s its String payload,
\* n its numeric payload (Option<u64> for Pause, u64 for Wait, u32 for GoTo).

Dir(k, s, n) == [k |-> k, s |-> s, n |-> n]
Say(text) == Dir("Say", text, None)
Type(text) == Dir("Type", text, None)
Run == Dir("Run", <<>>, None)
Pause(timeout) == Dir("Pause", <<>>, timeout)
Focus(app) == Dir("Focus", app, None)
SlideNext == Dir("SlideNext", <<>>, None)
SlidePrev == Dir("SlidePrev", <<>>, None)
SlideGoTo(n) == Dir("SlideGoTo", <<>>, Some(n))
Key(combo) == Dir("Key", combo, None)
Clear == Dir("Clear", <<>>, None)
Wait(secs) == Dir("Wait", <<>>, Some(secs))
Exec(cmd) == Dir("Exec", cmd, None)
Section(name) == Dir("Section", name, None)

\* ----------------------------------------------------------------- messages
\* protocol/messages.rs: enum Message, enum AckStatus.

Ping == [type |-> "Ping"]
Pong == [type |-> "Pong"]
Ack(status, message) == [type |-> "Ack", status |-> status, message |-> message]
Execute(actions, typing_speed, typing_variance) ==
    [type |-> "Execute", actions |-> actions,
     typing_speed |-> typing_speed, typing_variance |-> typing_variance]

\* -------------------------------------------------------------------- codec
\* serde_json's text for the derived Serialize of Message (internally tagged,
\* #[serde(tag = "type")]) and Directive (externally tagged).

\* ASCII of  {"type":"Ping"}
JsPing == <<123, 34, 116, 121, 112, 101, 34, 58, 34, 80, 105, 110, 103, 34, 125>>
\* ASCII of  {"type":"Pong"}
JsPong == <<123, 34, 116, 121, 112, 101, 34, 58, 34, 80, 111, 110, 103, 34, 125>>
\* ASCII of  {"type":"Ack","status":
JsAckHead == <<123, 34, 116, 121, 112, 101, 34, 58, 34, 65, 99, 107, 34, 44, 34, 115, 116, 97, 116, 117, 115, 34, 58>>
\* ASCII of  "Ok"
JsOk == <<34, 79, 107, 34>>
\* ASCII of  "Error"
JsError == <<34, 69, 114, 114, 111, 114, 34>>
\* ASCII of  ,"message":
JsAckMessage == <<44, 34, 109, 101, 115, 115, 97, 103, 101, 34, 58>>
\* ASCII of  null
JsNull == <<110, 117, 108, 108>>
\* ASCII of  {"type":"Execute","actions":[
JsExecuteHead == <<123, 34, 116, 121, 112, 101, 34, 58, 34, 69, 120, 101, 99, 117, 116, 101, 34, 44, 34, 97, 99, 116, 105, 111, 110, 115, 34, 58, 91>>
\* ASCII of  ],"typing_speed":
JsTypingSpeed == <<93, 44, 34, 116, 121, 112, 105, 110, 103, 95, 115, 112, 101, 101, 100, 34, 58>>
\* ASCII of  ,"typing_variance":
JsTypingVariance == <<44, 34, 116, 121, 112, 105, 110, 103, 95, 118, 97, 114, 105, 97, 110, 99, 101, 34, 58>>
\* ASCII of  "Run"
JsRun == <<34, 82, 117, 110, 34>>
\* ASCII of  "Clear"
JsClear == <<34, 67, 108, 101, 97, 114, 34>>
\* ASCII of  {"Say":
JsSay == <<123, 34, 83, 97, 121, 34, 58>>
\* ASCII of  {"Type":
JsType == <<123, 34, 84, 121, 112, 101, 34, 58>>
\* ASCII of  {"Pause":
JsPause == <<123, 34, 80, 97, 117, 115, 101, 34, 58>>
\* ASCII of  {"Focus":
JsFocus == <<123, 34, 70, 111, 99, 117, 115, 34, 58>>
\* ASCII of  {"Slide":
JsSlide == <<123, 34, 83, 108, 105, 100, 101, 34, 58>>
\* ASCII of  "Next"
JsNext == <<34, 78, 101, 120, 116, 34>>
\* ASCII of  "Prev"
JsPrev == <<34, 80, 114, 101, 118, 34>>
\* ASCII of  {"GoTo":
JsGoTo == <<123, 34, 71, 111, 84, 111, 34, 58>>
\* ASCII of  {"Key":
JsKey == <<123, 34, 75, 101, 121, 34, 58>>
\* ASCII of  {"Wait":
JsWait == <<123, 34, 87, 97, 105, 116, 34, 58>>
\* ASCII of  {"Exec":
JsExec == <<123, 34, 69, 120, 101, 99, 34, 58>>
\* ASCII of  {"Section":
JsSection == <<123, 34, 83, 101, 99, 116, 105, 111, 110, 34, 58>>

\* A JSON string: quote, backslash and newline are escaped.
RECURSIVE JsonEscape(_)
JsonEscape(s) ==
    IF s = <<>> THEN <<>>
    ELSE (CASE Head(s) = 34 -> <<92, 34>>
            [] Head(s) = 92 -> <<92, 92>>
            [] Head(s) = 10 -> <<92, 110>>
            [] OTHER -> <<Head(s)>>) \o JsonEscape(Tail(s))

JsonString(s) == <<34>> \o JsonEscape(s) \o <<34>>

RECURSIVE JsonNumber(_)
JsonNumber(n) == IF n < 10 THEN <<48 + n>> ELSE JsonNumber(n \div 10) \o <<48 + (n % 10)>>

JsonOptNumber(o) == IF o = None THEN JsNull ELSE JsonNumber(o[1])

JsonOptString(o) == IF o = None THEN JsNull ELSE JsonString(o[1])

JsonDirective(d) ==
    CASE d.k = "Run" -> JsRun
      [] d.k = "Clear" -> JsClear
      [] d.k = "Say" -> JsSay \o JsonString(d.s) \o <<125>>
      [] d.k = "Type" -> JsType \o JsonString(d.s) \o <<125>>
      [] d.k = "Pause" -> JsPause \o JsonOptNumber(d.n) \o <<125>>
      [] d.k = "Focus" -> JsFocus \o JsonString(d.s) \o <<125>>
      [] d.k = "SlideNext" -> JsSlide \o JsNext \o <<125>>
      [] d.k = "SlidePrev" -> JsSlide \o JsPrev \o <<125>>
      [] d.k = "SlideGoTo" -> JsSlide \o JsGoTo \o JsonNumber(d.n[1]) \o <<125, 125>>
      [] d.k = "Key" -> JsKey \o JsonString(d.s) \o <<125>>
      [] d.k = "Wait" -> JsWait \o JsonNumber(d.n[1]) \o <<125>>
      [] d.k = "Exec" -> JsExec \o JsonString(d.s) \o <<125>>
      [] d.k = "Section" -> JsSection \o JsonString(d.s) \o <<125>>

RECURSIVE JsonDirectives(_)
JsonDirectives(ds) ==
    IF ds = <<>> THEN <<>>
    ELSE IF Len(ds) = 1 THEN JsonDirective(ds[1])
    ELSE JsonDirective(ds[1]) \o <<44>> \o JsonDirectives(Tail(ds))

\* serde_json::to_vec(msg)
to_vec(msg) ==
    CASE msg.type = "Ping" -> JsPing
      [] msg.type = "Pong" -> JsPong
      [] msg.type = "Ack" ->
            JsAckHead \o (IF msg.status = "Ok" THEN JsOk ELSE JsError)
                \o JsAckMessage \o JsonOptString(msg.message) \o <<125>>
      [] msg.type = "Execute" ->
            JsExecuteHead \o JsonDirectives(msg.actions)
                \o JsTypingSpeed \o JsonNumber(msg.typing_speed)
                \o JsTypingVariance \o JsonNumber(msg.typing_variance) \o <<125>>

\* The length, least significant byte first.
to_le_bytes(len) ==
    <<len % 256, (len \div 256) % 256, (len \div 65536) % 256, (len \div 16777216) % 256>>

\* (json.len() as u32).to_be_bytes(): the four low-order bytes of the length,
\* which is what the cast to u32 keeps.
to_be_bytes(len) ==
    <<(len \div 16777216) % 256, (len \div 65536) % 256, (len \div 256) % 256, len % 256>>

\* u32::from_be_bytes
from_be_bytes(b) == b[1] * 16777216 + b[2] * 65536 + b[3] * 256 + b[4]

encode_message(msg) ==
    LET json == to_vec(msg)
        len == Len(json)
    IN  to_be_bytes(len) \o json

\* ------------------------------------------------------------------ grouper
\* grouper.rs: enum BlockType, struct ActionBlock

BtAction == [t |-> "Action", timeout |-> None]
BtPause(timeout) == [t |-> "Pause", timeout |-> timeout]
BtNarrationOnly == [t |-> "NarrationOnly", timeout |-> None]

ActionBlock(narration, actions, section, block_type) ==
    [narration |-> narration, actions |-> actions, section |-> section,
     block_type |-> block_type]

\* narration.join("\n") of a non-empty Vec<String>
RECURSIVE JoinLines(_)
JoinLines(lines) ==
    IF Len(lines) = 1 THEN lines[1]
    ELSE lines[1] \o <<10>> \o JoinLines(Tail(lines))

\* The value flush_narration returns; the caller's narration is empty afterwards.
flush_narration(narration) ==
    IF narration = <<>> THEN None ELSE Some(JoinLines(narration))

\* The accumulators of group_into_blocks.
GroupInit == [blocks |-> <<>>, narration |-> <<>>, actions |-> <<>>, section |-> None]

\* "if !current_actions.is_empty() { blocks.push(ActionBlock { .. Action }) }"
FlushPendingActions(g) ==
    IF g.actions # <<>>
    THEN [g EXCEPT !.blocks = Append(@, ActionBlock(flush_narration(g.narration),
                                                    g.actions, g.section, BtAction)),
                   !.narration = <<>>,
                   !.actions = <<>>]
    ELSE g

\* The loop body with a catch-all arm that puts the directive in front of the
\* pending actions.
GroupDirectivePrepends(g, d) ==
    CASE d.k = "Say" ->
            [FlushPendingActions(g) EXCEPT !.narration = Append(@, d.s)]
      [] d.k = "Section" ->
            [FlushPendingActions(g) EXCEPT !.section = Some(d.s)]
      [] d.k = "Pause" ->
            LET f == FlushPendingActions(g)
            IN  [f EXCEPT !.blocks = Append(@, ActionBlock(flush_narration(f.narration),
                                                           <<>>, f.section, BtPause(d.n))),
                          !.narration = <<>>]
      [] OTHER -> [g EXCEPT !.actions = <<d>> \o @]

\* The loop body with a Section arm that changes the section before it
\* flushes the pending actions.
GroupDirectiveSectionFirst(g, d) ==
    CASE d.k = "Say" ->
            [FlushPendingActions(g) EXCEPT !.narration = Append(@, d.s)]
      [] d.k = "Section" ->
            FlushPendingActions([g EXCEPT !.section = Some(d.s)])
      [] d.k = "Pause" ->
            LET f == FlushPendingActions(g)
            IN  [f EXCEPT !.blocks = Append(@, ActionBlock(flush_narration(f.narration),
                                                           <<>>, f.section, BtPause(d.n))),
                          !.narration = <<>>]
      [] OTHER -> [g EXCEPT !.actions = Append(@, d)]

\* The loop body with a Pause arm that forgets the timeout.
GroupDirectivePauseDropsTimeout(g, d) ==
    CASE d.k = "Say" ->
            [FlushPendingActions(g) EXCEPT !.narration = Append(@, d.s)]
      [] d.k = "Section" ->
            [FlushPendingActions(g) EXCEPT !.section = Some(d.s)]
      [] d.k = "Pause" ->
            LET f == FlushPendingActions(g)
            IN  [f EXCEPT !.blocks = Append(@, ActionBlock(flush_narration(f.narration),
                                                           <<>>, f.section, BtPause(None))),
                          !.narration = <<>>]
      [] OTHER -> [g EXCEPT !.actions = Append(@, d)]

\* The loop body with a Say arm that keeps only the most recent text.
GroupDirectiveSayReplaces(g, d) ==
    CASE d.k = "Say" ->
            [FlushPendingActions(g) EXCEPT !.narration = <<d.s>>]
      [] d.k = "Section" ->
            [FlushPendingActions(g) EXCEPT !.section = Some(d.s)]
      [] d.k = "Pause" ->
            LET f == FlushPendingActions(g)
            IN  [f EXCEPT !.blocks = Append(@, ActionBlock(flush_narration(f.narration),
                                                           <<>>, f.section, BtPause(d.n))),
                          !.narration = <<>>]
      [] OTHER -> [g EXCEPT !.actions = Append(@, d)]

\* The loop body without the Section arm: Section falls into the arm of the
\* executable directives.
GroupDirectiveSectionIsAction(g, d) ==
    CASE d.k = "Say" ->
            [FlushPendingActions(g) EXCEPT !.narration = Append(@, d.s)]
      [] d.k = "Pause" ->
            LET f == FlushPendingActions(g)
            IN  [f EXCEPT !.blocks = Append(@, ActionBlock(flush_narration(f.narration),
                                                           <<>>, f.section, BtPause(d.n))),
                          !.narration = <<>>]
      [] OTHER -> [g EXCEPT !.actions = Append(@, d)]

\* The loop body with a Pause arm that puts the pending actions into the
\* Pause block.
GroupDirectivePauseTakesActions(g, d) ==
    CASE d.k = "Say" ->
            [FlushPendingActions(g) EXCEPT !.narration = Append(@, d.s)]
      [] d.k = "Section" ->
            [FlushPendingActions(g) EXCEPT !.section = Some(d.s)]
      [] d.k = "Pause" ->
            [g EXCEPT !.blocks = Append(@, ActionBlock(flush_narration(g.narration),
                                                       g.actions, g.section, BtPause(d.n))),
                      !.narration = <<>>,
                      !.actions = <<>>]
      [] OTHER -> [g EXCEPT !.actions = Append(@, d)]

\* One iteration of the loop over script.lines.
GroupDirective(g, d) ==
    CASE d.k = "Say" ->
            [FlushPendingActions(g) EXCEPT !.narration = Append(@, d.s)]
      [] d.k = "Section" ->
            [FlushPendingActions(g) EXCEPT !.section = Some(d.s)]
      [] d.k = "Pause" ->
            LET f == FlushPendingActions(g)
            IN  [f EXCEPT !.blocks = Append(@, ActionBlock(flush_narration(f.narration),
                                                           <<>>, f.section, BtPause(d.n))),
                          !.narration = <<>>]
      [] OTHER -> [g EXCEPT !.actions = Append(@, d)]

RECURSIVE GroupLines(_, _)
GroupLines(g, lines) ==
    IF lines = <<>> THEN g ELSE GroupLines(GroupDirective(g, Head(lines)), Tail(lines))

\* The function with a final flush that emits no block for pending narration
\* without actions.
group_into_blocks_drops_narration(lines) ==
    FlushPendingActions(GroupLines(GroupInit, lines)).blocks

\* The function with a final flush that emits pending narration without
\* actions as an Action block.
group_into_blocks_empty_action(lines) ==
    LET g == GroupLines(GroupInit, lines)
    IN  IF g.actions # <<>> \/ g.narration # <<>>
        THEN Append(g.blocks, ActionBlock(flush_narration(g.narration), g.actions,
                                          g.section, BtAction))
        ELSE g.blocks

\* The function with a final flush that emits the pending narration as a
\* NarrationOnly block before the pending actions.
group_into_blocks_narration_first(lines) ==
    LET g == GroupLines(GroupInit, lines)
        n == IF g.narration # <<>>
             THEN [g EXCEPT !.blocks = Append(@, ActionBlock(flush_narration(g.narration),
                                                             <<>>, g.section,
                                                             BtNarrationOnly)),
                            !.narration = <<>>]
             ELSE g
    IN  FlushPendingActions(n).blocks

group_into_blocks(lines) ==
    LET g == GroupLines(GroupInit, lines)
    IN  IF g.actions # <<>> THEN FlushPendingActions(g).blocks
        ELSE IF g.narration # <<>>
        THEN Append(g.blocks, ActionBlock(flush_narration(g.narration), <<>>,
                                          g.section, BtNarrationOnly))
        ELSE g.blocks

\* ------------------------------------------------------- inputs of the model

\* The directives the presented scripts are written with.
ScriptDirectives == {Say(StrOne), Run, Pause(Some(3))}

SeqsUpTo(S, n) == UNION {[1..k -> S] : k \in 0..n}

\* A script of two narrated steps, as in test_client_reconnects_after_disconnect.
TwoStepScript == <<Say(StrOne), Run, Say(StrTwo), Clear>>

Scripts == SeqsUpTo(ScriptDirectives, MaxScriptLen) \cup {TwoStepScript}

\* Every action list an Execute of such a script can carry.
ActionLists == SeqsUpTo({Run, Clear}, MaxScriptLen)

\* The failure descriptions the executor capability may return.
ExecutorErrors == {StrMockFailure}

AckMessages == {None} \cup {Some(s) : s \in ExecutorErrors \cup {StrUnexpectedMessageType}}

\* The messages the test client of the agent sends, well-formed (the agent's
\* tests send Execute and Ping).
TestMessages == {Ping, Pong, Ack("Ok", None), Execute(<<Run, Clear>>, 80, 5)}

\* Messages of every variant, with every variant of Directive, an empty
\* action list, an empty and an absent Ack message, and texts with a quote, a
\* backslash and a newline (Terminal, "a"b\<newline>", """ and "\"" are the
\* texts spelled in bytes).
CodecMessages ==
    {Ping, Pong,
     Ack("Ok", None), Ack("Ok", Some(<<>>)), Ack("Error", Some(StrMockFailure)),
     Execute(<<>>, 0, 0),
     Execute(<<Focus(<<84, 101, 114, 109, 105, 110, 97, 108>>), Run>>, 40, 15),
     Execute(<<Type(<<97, 34, 98, 92, 10>>)>>, 1000000, 7),
     Execute(<<Type(<<34>>)>>, 40, 15),
     Execute(<<Type(<<92, 34>>)>>, 40, 15),
     Execute(<<Say(StrOne), Pause(None), Pause(Some(3)), SlideNext, SlidePrev,
               SlideGoTo(12), Key(StrTwo), Clear, Wait(2), Exec(StrTwo),
               Section(StrOne)>>, 80, 5)}

\* The messages the payloads on the wire are parsed into.
Messages ==
    {Ping, Pong}
        \cup {Ack(st, m) : st \in {"Ok", "Error"}, m \in AckMessages}
        \cup {Execute(a, DefaultTypingSpeed, DefaultTypingVariance) : a \in ActionLists}
        \cup TestMessages
        \cup CodecMessages

\* The texts that are a message, and the message each is.
Payloads == {to_vec(m) : m \in Messages}

MessageOf == [p \in Payloads |-> CHOOSE m \in Messages : to_vec(m) = p]

\* serde_json::from_slice::<Message>(payload): the message whose text the
\* payload is, or an error.
from_slice(payload) ==
    IF payload \in Payloads
    THEN [ok |-> TRUE, msg |-> MessageOf[payload]]
    ELSE [ok |-> FALSE, msg |-> Ping]

\* decode_message that parses what is there as soon as the length is.
decode_message_eager(buf) ==
    IF Len(buf) < 4 THEN [r |-> "None"]
    ELSE LET len == from_be_bytes(SubSeq(buf, 1, 4))
             parsed == from_slice(SubSeq(buf, 5, IF Len(buf) < 4 + len THEN Len(buf)
                                                 ELSE 4 + len))
         IN  IF parsed.ok
             THEN [r |-> "Some", msg |-> parsed.msg, consumed |-> 4 + len]
             ELSE [r |-> "Err"]

\* decode_message that consumes the whole buffer.
decode_message_greedy(buf) ==
    IF Len(buf) < 4 THEN [r |-> "None"]
    ELSE LET len == from_be_bytes(SubSeq(buf, 1, 4))
         IN  IF Len(buf) < 4 + len THEN [r |-> "None"]
             ELSE LET parsed == from_slice(SubSeq(buf, 5, 4 + len))
                  IN  IF parsed.ok
                      THEN [r |-> "Some", msg |-> parsed.msg, consumed |-> Len(buf)]
                      ELSE [r |-> "Err"]

\* decode_message that asks for more data when the payload is no message.
decode_message_waits(buf) ==
    IF Len(buf) < 4 THEN [r |-> "None"]
    ELSE LET len == from_be_bytes(SubSeq(buf, 1, 4))
         IN  IF Len(buf) < 4 + len THEN [r |-> "None"]
             ELSE LET parsed == from_slice(SubSeq(buf, 5, 4 + len))
                  IN  IF parsed.ok
                      THEN [r |-> "Some", msg |-> parsed.msg, consumed |-> 4 + len]
                      ELSE [r |-> "None"]

\* decode_message: Ok(None), Ok(Some((msg, consumed))) or Err.
decode_message(buf) ==
    IF Len(buf) < 4 THEN [r |-> "None"]
    ELSE LET len == from_be_bytes(SubSeq(buf, 1, 4))
         IN  IF Len(buf) < 4 + len THEN [r |-> "None"]
             ELSE LET parsed == from_slice(SubSeq(buf, 5, 4 + len))
                  IN  IF parsed.ok
                      THEN [r |-> "Some", msg |-> parsed.msg, consumed |-> 4 + len]
                      ELSE [r |-> "Err"]

\* -------------------------------------------------------------------- state

VARIABLES
    \* Presenter (client/mod.rs)
    blocks,         \* Presenter.blocks
    current,        \* Presenter.current
    connection,     \* Presenter.connection: 0 is None, c > 0 is Some(stream of c)
    pc,             \* "idle", or the call blocked in send_and_receive: "connect", "step"
    pending,        \* send_and_receive's local `pending`
    \* the TCP connections, by the order in which they were opened
    conns,
    peer,           \* what listens at agent_addr: "agent" (Agent::run) or "mock"
    client,         \* what connects to it: "presenter", or "test" (the TcpStream
                    \* of the agent's tests)
    \* Agent (agent/mod.rs)
    apc,            \* "accept", "read", "drain" (the while loop), "exec" (in the executor)
    aconn,          \* the connection handle_connection serves, 0 in accept
    apending,       \* handle_connection's `pending`
    idle_timeouts,  \* handle_connection's `idle_timeouts`
    aexec,          \* the Execute the executor is running: <<>> or <<[msg, t]>>
    \* history, read by the properties only
    last,           \* the presenter's latest call, its inputs and its result
    lostAt,         \* cursor of the step() that returned ConnectionLost, if no
                    \* step/go_back/skip was called since; else -1
    lost,           \* a step() returned ConnectionLost and no connect() has
                    \* returned Ok since
    run,            \* n: the calls so far, connect() aside, are n step() calls
                    \* that each read Ack{Ok}; -1: there was another call
    handshaken,     \* the connections on which connect() received Pong
    alast,          \* the latest frame the agent decoded on the connection it
                    \* serves (or served last), and what it did with it
    session,        \* the test client's latest connection: what was written
                    \* on it, what the agent did with it and how it ended
    \* a function called on its own (the codec, the grouper)
    unit            \* its inputs, its local state and its results so far

vars == <<blocks, current, connection, pc, pending, conns, peer, client,
          apc, aconn, apending, idle_timeouts, aexec,
          last, lostAt, lost, run, handshaken, alast, session, unit>>

history == <<last, lostAt, lost, run, handshaken>>

presenterVars == <<blocks, current, connection, pc, pending>>
ends == <<peer, client, unit>>
agentVars == <<apc, aconn, apending, idle_timeouts, aexec, alast, session>>

\* ------------------------------------------------------------- byte streams
\* A stream is a sequence of chunks; a chunk is the bytes of one write (or
\* what a read left of them) with a note, t, of where they come from:
\*   f = 1: a request written by the presenter's latest send_and_receive,
\*          or the reply the agent produced for that request;
\*   q: the type of the request (for a reply: of the request it answers);
\*   x = 1, a: a reply for which the executor ran the actions a and succeeded;
\*   x = 0, a, e: one for which it ran the actions a and failed with e.

Chunk(bytes, t) == [b |-> bytes, t |-> t]
NoTag == [f |-> 0, q |-> "none", x |-> 0, a |-> <<>>, e |-> <<>>]
RequestTag(msg) == [f |-> 1, q |-> msg.type, x |-> 0, a |-> <<>>, e |-> <<>>]

RECURSIVE StreamBytes(_)
StreamBytes(w) == IF w = <<>> THEN <<>> ELSE w[1].b \o StreamBytes(Tail(w))

\* A drain that empties the buffer.
DrainAll(w, n) == <<>>

\* Vec::drain(..n)
RECURSIVE Drain(_, _)
Drain(w, n) ==
    IF n = 0 \/ w = <<>> THEN w
    ELSE IF Len(w[1].b) <= n THEN Drain(Tail(w), n - Len(w[1].b))
    ELSE <<[w[1] EXCEPT !.b = SubSeq(@, n + 1, Len(@))]>> \o Tail(w)

\* A new send_and_receive call begins: what is in flight belongs to older calls.
Older(w) == [i \in DOMAIN w |-> [w[i] EXCEPT !.t.f = 0]]

OlderConns(cs) == [c \in DOMAIN cs |-> [cs[c] EXCEPT !.c2s = Older(@), !.s2c = Older(@)]]

Conn == 1..MaxConns

\* cli, srv: the two ends; c2s, s2c: the bytes written and not yet read;
\* owed (see Owed) and pw, the writes a mock peer has made, are history.
Unused == [cli |-> "unused", srv |-> "unused", c2s |-> <<>>, s2c |-> <<>>,
           owed |-> 0, pw |-> 0]

\* drop(TcpStream) on the presenter's side (c = 0: there is none to drop).
\* What was written to the agent stays for it to read; a mock peer's end is
\* of no interest any more.
CloseClient(cs, c) ==
    IF c = 0 THEN cs
    ELSE IF peer = "mock" THEN [cs EXCEPT ![c] = [Unused EXCEPT !.cli = "closed",
                                                                !.srv = "closed"]]
    ELSE [cs EXCEPT ![c].cli = "closed", ![c].s2c = <<>>, ![c].owed = 0]

\* drop(TcpStream) on the listener's side
CloseServer(cs, c) == [cs EXCEPT ![c].srv = "closed", ![c].c2s = <<>>]

\* stream.write_all(&encoded) by the presenter that succeeds: the bytes reach
\* the peer's socket unless the peer has closed it; a mock peer takes them
\* at once.
ClientWrite(cs, c, msg) ==
    IF peer = "mock" \/ cs[c].srv = "closed" THEN cs
    ELSE [cs EXCEPT ![c].c2s = Append(@, Chunk(encode_message(msg), RequestTag(msg)))]

\* owed counts, per connection, the Executes the presenter wrote and has not
\* read a reply to.  It is kept against the agent; what a mock peer writes
\* answers nothing.
Owed == IF peer = "agent" THEN 1 ELSE 0

\* The replies to an Execute among the chunks a read takes.
ExecuteReplies(w) == Cardinality({i \in DOMAIN w : w[i].t.q = "Execute"})

\* ------------------------------------------------------------------ history

\* A call begins: op, the cursor, the total and `lost` at that moment; then
\* what it wrote (sent), the reply it decoded and where that came from (tag),
\* its result (res, val) and why it failed (cause).  after: for a step()
\* called right after a connect() that returned Ok, lostAt; else -1.
\* retry: for a step() called right after a step() that returned AgentError,
\* the cursor of that step(); else -1.
Call(op) ==
    [op |-> op, res |-> "Pending", val |-> <<>>, cur0 |-> current,
     total0 |-> Len(blocks), lost0 |-> lost, sent |-> None, reply |-> None,
     tag |-> NoTag, after |-> -1, retry |-> -1, cause |-> "none"]

Returned(res, val, cause) == [last EXCEPT !.res = res, !.val = val, !.cause = cause]

Replied(res, val, msg, t) ==
    [last EXCEPT !.res = res, !.val = val, !.reply = Some(msg), !.tag = t]

\* ---------------------------------------------------------------- presenter

\* blocks.get(i) that starts again at the first block past the end.
get_wraps(i) ==
    IF i < Len(blocks) THEN Some(blocks[i + 1])
    ELSE IF Len(blocks) > 0 THEN Some(blocks[1]) ELSE None

\* self.blocks.get(i)
get(i) == IF i < Len(blocks) THEN Some(blocks[i + 1]) ELSE None

\* Presenter::current_block
current_block == get(current)

\* Presenter::progress
progress == <<current, Len(blocks)>>

\* Presenter::is_connected
is_connected == connection # 0

\* go_back() without the test against 0.
go_back_current_unclamped(cur) == cur - 1

\* Presenter::go_back
go_back_current(cur) == IF cur > 0 THEN cur - 1 ELSE cur

\* skip() without the test against blocks.len().
skip_current_unclamped(cur, len) == cur + 1

\* Presenter::skip
skip_current(cur, len) == IF cur < len THEN cur + 1 ELSE cur

\* step() that does not move the cursor on Ack{Ok}.
step_response_stays(response) ==
    IF response.type = "Ack" /\ response.status = "Ok"
    THEN [res |-> "Executed", val |-> <<>>, advance |-> 0]
    ELSE [res |-> "AgentError", val |-> StrUnexpectedResponse, advance |-> 0]

\* step() that moves the cursor on a reply that is no Ack.
step_response_skips_unexpected(response) ==
    IF response.type = "Ack" /\ response.status = "Ok"
    THEN [res |-> "Executed", val |-> <<>>, advance |-> 1]
    ELSE IF response.type = "Ack"
    THEN [res |-> "AgentError",
          val |-> IF response.message = None THEN StrUnknownAgentError
                  ELSE response.message[1],
          advance |-> 0]
    ELSE [res |-> "AgentError", val |-> StrUnexpectedResponse, advance |-> 1]

\* step(): the arms for what send_and_receive returned Ok(response).
step_response(response) ==
    IF response.type = "Ack" /\ response.status = "Ok"
    THEN [res |-> "Executed", val |-> <<>>, advance |-> 1]
    ELSE IF response.type = "Ack"
    THEN [res |-> "AgentError",
          val |-> IF response.message = None THEN StrUnknownAgentError
                  ELSE response.message[1],
          advance |-> 0]
    ELSE [res |-> "AgentError", val |-> StrUnexpectedResponse, advance |-> 0]

\* step() that moves the cursor on Err(_).
step_error_advances(conn) == [connection |-> 0, advance |-> 1]

\* step(): the arm for Err(_): [connection afterwards, cursor advance].
step_error(conn) == [connection |-> 0, advance |-> 0]

\* connect() that keeps the stream whatever the reply.
connect_response_keeps(conn, response) == conn

\* connect(): the connection field after the handshake reply `response`.
connect_response(conn, response) == IF response # Pong THEN 0 ELSE conn

\* connect(): the connection field after send_and_receive(Ping)? returned
\* early with an error (self.connection was set before the handshake).
connect_error(conn) == conn

\* step() that takes every block to the agent.
NeedsAgentAlways(b) == b # None

\* The block step() acts on needs the network.
NeedsAgent(b) == b # None /\ b[1].block_type.t = "Action" /\ b[1].actions # <<>>

go_back ==
    /\ pc = "idle"
    /\ current' = go_back_current(current)
    /\ last' = [Call("go_back") EXCEPT !.res = "Unit"]
    /\ lostAt' = -1
    /\ run' = -1
    /\ UNCHANGED <<blocks, connection, pc, pending, conns, ends, agentVars, lost, handshaken>>

skip ==
    /\ pc = "idle"
    /\ current' = skip_current(current, Len(blocks))
    /\ last' = [Call("skip") EXCEPT !.res = "Unit"]
    /\ lostAt' = -1
    /\ run' = -1
    /\ UNCHANGED <<blocks, connection, pc, pending, conns, ends, agentVars, lost, handshaken>>

\* connect(): TcpStream::connect_timeout fails; nothing was assigned.
connect_refused ==
    /\ pc = "idle"
    /\ last' = [Call("connect") EXCEPT !.res = "Err", !.cause = "connect"]
    /\ UNCHANGED <<presenterVars, conns, ends, agentVars, lostAt, lost, run, handshaken>>

\* connect() up to the read of send_and_receive(Ping): the stream is opened,
\* stored in self.connection (the stream held before is dropped) and the
\* Ping is written.
connect_open ==
    /\ pc = "idle"
    /\ \E c \in Conn :
        /\ conns[c].cli = "unused"
        /\ \A d \in 1..(c - 1) : conns[d].cli # "unused"
        /\ LET dropped == CloseClient(OlderConns(conns), connection)
               opened == [dropped EXCEPT ![c] = [Unused EXCEPT !.cli = "open",
                                                               !.srv = "backlog"]]
           IN  conns' = ClientWrite(opened, c, Ping)
        /\ connection' = c
    /\ pc' = "connect"
    /\ pending' = <<>>
    /\ last' = [Call("connect") EXCEPT !.sent = Some(Ping)]
    /\ apending' = Older(apending)
    /\ aexec' = Older(aexec)
    /\ UNCHANGED <<blocks, current, ends, apc, aconn, idle_timeouts, alast, session,
                   lostAt, lost, run, handshaken>>

\* send_and_receive's loop, one read that returns n > 0 bytes: everything the
\* socket holds.  The first message of `pending` is returned, if complete.
connect_read ==
    /\ pc = "connect"
    /\ conns[connection].s2c # <<>>
    /\ LET got == conns[connection].s2c
           buf == pending \o got
           d == decode_message(StreamBytes(buf))
           taken == [conns EXCEPT ![connection].s2c = <<>>,
                                  ![connection].owed = @ - ExecuteReplies(got)]
       IN  CASE d.r = "None" ->
                    /\ pending' = buf
                    /\ conns' = taken
                    /\ UNCHANGED <<connection, pc, last, lost, handshaken>>
             [] d.r = "Err" ->
                    /\ pending' = <<>>
                    /\ connection' = connect_error(connection)
                    /\ conns' = CloseClient(taken, IF connection' = 0 THEN connection ELSE 0)
                    /\ pc' = "idle"
                    /\ last' = Returned("Err", <<>>, "decode")
                    /\ UNCHANGED <<lost, handshaken>>
             [] d.r = "Some" ->
                    /\ pending' = <<>>
                    /\ connection' = connect_response(connection, d.msg)
                    /\ conns' = CloseClient(taken, IF connection' = 0 THEN connection ELSE 0)
                    /\ pc' = "idle"
                    /\ last' = Replied(IF d.msg # Pong THEN "Err" ELSE "Ok", <<>>,
                                       d.msg, buf[1].t)
                    /\ handshaken' = IF d.msg = Pong THEN handshaken \cup {connection}
                                     ELSE handshaken
                    /\ lost' = IF d.msg = Pong THEN FALSE ELSE lost
    /\ UNCHANGED <<blocks, current, ends, agentVars, lostAt, run>>

\* send_and_receive's read fails inside connect(): the read times out (no byte
\* arrives within the read timeout), or returns 0 or an error after the peer
\* closed.  The error is returned by `?`.
connect_read_fails ==
    /\ pc = "connect"
    /\ conns[connection].s2c = <<>>
    /\ connection' = connect_error(connection)
    /\ conns' = CloseClient(conns, IF connection' = 0 THEN connection ELSE 0)
    /\ pc' = "idle"
    /\ pending' = <<>>
    /\ last' = Returned("Err", <<>>,
                        IF conns[connection].srv = "closed" THEN "closed" ELSE "timeout")
    /\ UNCHANGED <<blocks, current, ends, agentVars, lostAt, lost, run, handshaken>>

\* What a call of step() records when it begins.
StepCall ==
    [Call("step") EXCEPT
        !.after = IF last.op = "connect" /\ last.res = "Ok" THEN lostAt ELSE -1,
        !.retry = IF last.op = "step" /\ last.res = "AgentError" THEN last.cur0 ELSE -1]

\* step() on no block, a NarrationOnly block, a Pause block or an Action
\* block without actions: no network.
step_local ==
    /\ pc = "idle"
    /\ ~NeedsAgent(current_block)
    /\ LET b == current_block
       IN  IF b = None
           THEN /\ current' = current
                /\ last' = [StepCall EXCEPT !.res = "Finished"]
           ELSE /\ current' = current + 1
                /\ last' = CASE b[1].block_type.t = "NarrationOnly" ->
                                    [StepCall EXCEPT !.res = "NarrationOnly"]
                             [] b[1].block_type.t = "Pause" ->
                                    [StepCall EXCEPT !.res = "Paused",
                                                     !.val = b[1].block_type.timeout]
                             [] b[1].block_type.t = "Action" ->
                                    [StepCall EXCEPT !.res = "Executed"]
    /\ lostAt' = -1
    /\ run' = -1
    /\ UNCHANGED <<blocks, connection, pc, pending, conns, ends, agentVars, lost, handshaken>>

\* step() that sends the actions of the first block, wherever the cursor is.
StepExecuteFirst ==
    Execute(blocks[1].actions, DefaultTypingSpeed, DefaultTypingVariance)

\* The Execute step() builds for the block at the cursor.
StepExecute ==
    Execute(current_block[1].actions, DefaultTypingSpeed, DefaultTypingVariance)

\* step() on an Action block, send_and_receive without a connection:
\* "Not connected".
step_not_connected ==
    /\ pc = "idle"
    /\ NeedsAgent(current_block)
    /\ connection = 0
    /\ connection' = step_error(connection).connection
    /\ current' = current + step_error(connection).advance
    /\ last' = [StepCall EXCEPT !.res = "ConnectionLost", !.cause = "not_connected"]
    /\ lostAt' = current
    /\ lost' = TRUE
    /\ run' = -1
    /\ UNCHANGED <<blocks, pc, pending, conns, ends, agentVars, handshaken>>

\* step() on an Action block, send_and_receive's write_all fails (the peer
\* has closed the connection).
step_write_fails ==
    /\ pc = "idle"
    /\ NeedsAgent(current_block)
    /\ connection # 0
    /\ conns[connection].srv = "closed"
    /\ connection' = step_error(connection).connection
    /\ current' = current + step_error(connection).advance
    /\ conns' = CloseClient(conns, IF connection' = 0 THEN connection ELSE 0)
    /\ last' = [StepCall EXCEPT !.res = "ConnectionLost", !.cause = "write"]
    /\ lostAt' = current
    /\ lost' = TRUE
    /\ run' = -1
    /\ UNCHANGED <<blocks, pc, pending, ends, agentVars, handshaken>>

\* step() on an Action block up to the read of send_and_receive: the Execute
\* is written.
step_send ==
    /\ pc = "idle"
    /\ NeedsAgent(current_block)
    /\ connection # 0
    /\ conns' = [ClientWrite(OlderConns(conns), connection, StepExecute)
                    EXCEPT ![connection].owed = @ + Owed]
    /\ pc' = "step"
    /\ pending' = <<>>
    /\ last' = [StepCall EXCEPT !.sent = Some(StepExecute)]
    /\ apending' = Older(apending)
    /\ aexec' = Older(aexec)
    /\ UNCHANGED <<blocks, current, connection, ends, apc, aconn, idle_timeouts, alast,
                   session,
                   lostAt, lost, run, handshaken>>

\* send_and_receive's loop inside step(), one read that returns n > 0 bytes.
step_read ==
    /\ pc = "step"
    /\ conns[connection].s2c # <<>>
    /\ LET got == conns[connection].s2c
           buf == pending \o got
           d == decode_message(StreamBytes(buf))
           taken == [conns EXCEPT ![connection].s2c = <<>>,
                                  ![connection].owed = @ - ExecuteReplies(got)]
       IN  CASE d.r = "None" ->
                    /\ pending' = buf
                    /\ conns' = taken
                    /\ UNCHANGED <<connection, current, pc, last, lostAt, lost, run>>
             [] d.r = "Err" ->
                    /\ pending' = <<>>
                    /\ connection' = step_error(connection).connection
                    /\ current' = current + step_error(connection).advance
                    /\ conns' = CloseClient(taken, IF connection' = 0 THEN connection ELSE 0)
                    /\ pc' = "idle"
                    /\ last' = Returned("ConnectionLost", <<>>, "decode")
                    /\ lostAt' = current
                    /\ lost' = TRUE
                    /\ run' = -1
             [] d.r = "Some" ->
                    /\ pending' = <<>>
                    /\ conns' = taken
                    /\ current' = current + step_response(d.msg).advance
                    /\ pc' = "idle"
                    /\ last' = Replied(step_response(d.msg).res, step_response(d.msg).val,
                                       d.msg, buf[1].t)
                    /\ lostAt' = -1
                    /\ run' = IF run >= 0 /\ d.msg = Ack("Ok", None) THEN run + 1 ELSE -1
                    /\ UNCHANGED <<connection, lost>>
    /\ UNCHANGED <<blocks, ends, agentVars, handshaken>>

\* send_and_receive's read fails inside step(): timeout, or 0 bytes or an
\* error after the peer closed.
step_read_fails ==
    /\ pc = "step"
    /\ conns[connection].s2c = <<>>
    /\ connection' = step_error(connection).connection
    /\ current' = current + step_error(connection).advance
    /\ conns' = CloseClient(conns, IF connection' = 0 THEN connection ELSE 0)
    /\ pc' = "idle"
    /\ pending' = <<>>
    /\ last' = Returned("ConnectionLost", <<>>,
                        IF conns[connection].srv = "closed" THEN "closed" ELSE "timeout")
    /\ lostAt' = current
    /\ lost' = TRUE
    /\ run' = -1
    /\ UNCHANGED <<blocks, ends, agentVars, handshaken>>

\* -------------------------------------------------------------------- agent

\* What the executor capability returns: Ok(()) or Err(description).
ExecutorResults == {[ok |-> TRUE, err |-> <<>>]} \cup
                   {[ok |-> FALSE, err |-> e] : e \in ExecutorErrors}

\* handle_message that rejects a Ping.
handle_message_rejects_ping(msg, result) ==
    CASE msg.type = "Execute" ->
            IF result.ok THEN Ack("Ok", None) ELSE Ack("Error", Some(result.err))
      [] OTHER -> Ack("Error", Some(StrUnexpectedMessageType))

\* handle_message that answers every message but Execute with Pong.
handle_message_pongs(msg, result) ==
    CASE msg.type = "Execute" ->
            IF result.ok THEN Ack("Ok", None) ELSE Ack("Error", Some(result.err))
      [] OTHER -> Pong

\* Agent::handle_message; `result` is what executor.execute returned (read
\* for an Execute only).
handle_message(msg, result) ==
    CASE msg.type = "Execute" ->
            IF result.ok THEN Ack("Ok", None) ELSE Ack("Error", Some(result.err))
      [] msg.type = "Ping" -> Pong
      [] OTHER -> Ack("Error", Some(StrUnexpectedMessageType))

\* handle_message that passes the default typing parameters.
execute_args_defaults(msg) ==
    [actions |-> msg.actions, typing_speed |-> DefaultTypingSpeed,
     typing_variance |-> DefaultTypingVariance]

\* What handle_message passes to executor.execute for an Execute.
execute_args(msg) ==
    [actions |-> msg.actions, typing_speed |-> msg.typing_speed,
     typing_variance |-> msg.typing_variance]

\* The agent decodes a frame: its kind ("message", "malformed"), the message,
\* the connection and the type of the frame decoded before it on that
\* connection ("none": it is the first); then the
\* calls of the executor made for it, what the executor returned, the replies
\* written for it (write_all called), and whether handle_connection returned
\* while handling it.
NoFrame ==
    [kind |-> "none", msg |-> Ping, conn |-> 0, before |-> "none", calls |-> <<>>,
     result |-> None, replies |-> <<>>, returned |-> FALSE]

\* alast is kept where the agent is driven by the test client.
Observed(frame) == IF client = "test" THEN frame ELSE NoFrame

Decoded(kind, msg) ==
    [kind |-> kind, msg |-> msg, conn |-> aconn,
     before |-> IF alast.conn = aconn THEN alast.msg.type ELSE "none",
     calls |-> <<>>, result |-> None, replies |-> <<>>, returned |-> FALSE]

\* The test client's latest connection: the bytes it wrote that reached the
\* agent's socket, the read timeouts of the agent since its last read of
\* bytes, the messages the agent decoded and the replies it wrote (write_all
\* called), in order, how handle_connection returned ("none": it has not;
\* "closed": read of 0 bytes or read error; "idle"; "malformed": decode
\* error; "write": write error), and how it returned for the connection
\* before.
NoSession ==
    [conn |-> 0, wrote |-> <<>>, timeouts |-> 0, reqs |-> <<>>, reps |-> <<>>,
     ended |-> "none", prev |-> "none"]

\* session is kept where the agent is driven by the test client.
Noted(s) == IF client = "test" THEN s ELSE NoSession

\* handle_connection that goes back to read instead of returning.
AgentKeepsServing ==
    /\ conns' = conns
    /\ apc' = "read"
    /\ aconn' = aconn
    /\ apending' = <<>>
    /\ idle_timeouts' = 0
    /\ aexec' = <<>>

\* handle_connection returns and run() returns with it: the agent has stopped.
AgentStops ==
    /\ conns' = CloseServer(conns, aconn)
    /\ apc' = "stopped"
    /\ aconn' = 0
    /\ apending' = <<>>
    /\ idle_timeouts' = 0
    /\ aexec' = <<>>

\* handle_connection returns (Ok or Err): the stream is dropped and run()
\* goes back to listener.accept().
AgentReturns ==
    /\ conns' = CloseServer(conns, aconn)
    /\ apc' = "accept"
    /\ aconn' = 0
    /\ apending' = <<>>
    /\ idle_timeouts' = 0
    /\ aexec' = <<>>

\* An agent that accepts a waiting connection also while it reads from another.
agent_accept_while_serving ==
    /\ peer = "agent"
    /\ apc \in {"accept", "read"}
    /\ \E c \in Conn :
        /\ conns[c].srv = "backlog"
        /\ \A d \in 1..(c - 1) : conns[d].srv # "backlog"
        /\ conns' = [conns EXCEPT ![c].srv = "open"]
        /\ aconn' = c
    /\ apc' = "read"
    /\ apending' = <<>>
    /\ idle_timeouts' = 0
    /\ alast' = NoFrame
    /\ UNCHANGED <<presenterVars, ends, aexec, session, history>>

\* Agent::run: listener.accept() returns the oldest connection not yet
\* accepted; handle_connection starts with an empty buffer and has decoded
\* nothing yet.
agent_accept ==
    /\ peer = "agent"
    /\ apc = "accept"
    /\ \E c \in Conn :
        /\ conns[c].srv = "backlog"
        /\ \A d \in 1..(c - 1) : conns[d].srv # "backlog"
        /\ conns' = [conns EXCEPT ![c].srv = "open"]
        /\ aconn' = c
    /\ apc' = "read"
    /\ apending' = <<>>
    /\ idle_timeouts' = 0
    /\ alast' = NoFrame
    /\ UNCHANGED <<presenterVars, ends, aexec, session, history>>

\* stream.read returns Ok(n), n > 0, and idle_timeouts is left as it is.
agent_read_keeps_idle_timeouts ==
    /\ peer = "agent"
    /\ apc = "read"
    /\ conns[aconn].c2s # <<>>
    /\ idle_timeouts' = idle_timeouts
    /\ apending' = apending \o conns[aconn].c2s
    /\ conns' = [conns EXCEPT ![aconn].c2s = <<>>]
    /\ apc' = "drain"
    /\ session' = Noted([session EXCEPT !.timeouts = 0])
    /\ UNCHANGED <<presenterVars, ends, aconn, aexec, alast, history>>

\* handle_connection: stream.read returns Ok(n), n > 0.
agent_read ==
    /\ peer = "agent"
    /\ apc = "read"
    /\ conns[aconn].c2s # <<>>
    /\ idle_timeouts' = 0
    /\ apending' = apending \o conns[aconn].c2s
    /\ conns' = [conns EXCEPT ![aconn].c2s = <<>>]
    /\ apc' = "drain"
    /\ session' = Noted([session EXCEPT !.timeouts = 0])
    /\ UNCHANGED <<presenterVars, ends, aconn, aexec, alast, history>>

\* handle_connection: stream.read returns Ok(0) (the client closed) or an
\* error other than a timeout (the client reset the connection).
agent_read_closed ==
    /\ peer = "agent"
    /\ apc = "read"
    /\ conns[aconn].cli = "closed"
    /\ AgentReturns
    /\ session' = Noted([session EXCEPT !.ended = "closed"])
    /\ UNCHANGED <<presenterVars, ends, alast, history>>

\* handle_connection: stream.read times out.
agent_read_timeout ==
    /\ peer = "agent"
    /\ apc = "read"
    /\ conns[aconn].c2s = <<>>
    /\ conns[aconn].cli = "open"
    /\ IF idle_timeouts + 1 >= MAX_IDLE_TIMEOUTS
       THEN AgentReturns
       ELSE /\ idle_timeouts' = idle_timeouts + 1
            /\ UNCHANGED <<conns, apc, aconn, apending, aexec>>
    /\ session' = Noted([session EXCEPT !.timeouts = @ + 1,
                                        !.ended = IF apc' = "accept" THEN "idle" ELSE @])
    /\ UNCHANGED <<presenterVars, ends, alast, history>>

\* stream.write_all(&encoded) by the agent: it succeeds, or fails when the
\* client has closed the connection (then handle_connection returns Err).
\* `rest` is `pending` after the drain.
AgentWrites(response, t, rest) ==
    \/ /\ conns[aconn].cli = "open"
       /\ conns' = [conns EXCEPT ![aconn].s2c = Append(@, Chunk(encode_message(response), t))]
       /\ apc' = "drain"
       /\ apending' = rest
       /\ aexec' = <<>>
       /\ UNCHANGED <<aconn, idle_timeouts>>
    \/ /\ conns[aconn].cli = "closed"
       /\ apc' = "drain"
       /\ apending' = rest
       /\ aexec' = <<>>
       /\ UNCHANGED <<conns, aconn, idle_timeouts>>
    \/ /\ conns[aconn].cli = "closed"
       /\ AgentReturns

\* handle_connection's while loop: decode the next message of `pending`;
\* a Ping or an unexpected message is answered at once, an Execute goes to
\* the executor.
agent_drain ==
    /\ peer = "agent"
    /\ apc = "drain"
    /\ LET d == decode_message(StreamBytes(apending))
       IN  CASE d.r = "None" ->
                    /\ apc' = "read"
                    /\ UNCHANGED <<conns, aconn, apending, idle_timeouts, aexec, alast,
                                   session>>
             [] d.r = "Err" ->
                    /\ AgentReturns
                    /\ session' = Noted([session EXCEPT !.ended = "malformed"])
                    /\ alast' = Observed([Decoded("malformed", Ping) EXCEPT
                                            !.returned = TRUE])
             [] d.r = "Some" /\ d.msg.type = "Execute" ->
                    /\ apending' = Drain(apending, d.consumed)
                    /\ aexec' = <<[msg |-> d.msg, t |-> apending[1].t]>>
                    /\ apc' = "exec"
                    /\ alast' = Observed([Decoded("message", d.msg) EXCEPT
                                            !.calls = <<execute_args(d.msg)>>])
                    /\ session' = Noted([session EXCEPT !.reqs = Append(@, d.msg)])
                    /\ UNCHANGED <<conns, aconn, idle_timeouts>>
             [] d.r = "Some" /\ d.msg.type # "Execute" ->
                    /\ AgentWrites(handle_message(d.msg, [ok |-> TRUE, err |-> <<>>]),
                                   [apending[1].t EXCEPT !.x = 0],
                                   Drain(apending, d.consumed))
                    /\ alast' = Observed([Decoded("message", d.msg) EXCEPT
                                    !.replies = <<handle_message(d.msg, [ok |-> TRUE,
                                                                         err |-> <<>>])>>,
                                    !.returned = (apc' = "accept")])
                    /\ session' = Noted([session EXCEPT
                                    !.reqs = Append(@, d.msg),
                                    !.reps = Append(@, handle_message(d.msg,
                                                        [ok |-> TRUE, err |-> <<>>])),
                                    !.ended = IF apc' = "accept" THEN "write" ELSE @])
    /\ UNCHANGED <<presenterVars, ends, history>>

\* handle_message: executor.execute returns; the Ack is written.
agent_executed ==
    /\ peer = "agent"
    /\ apc = "exec"
    /\ \E result \in ExecutorResults :
        /\ AgentWrites(handle_message(aexec[1].msg, result),
                       [aexec[1].t EXCEPT !.x = IF result.ok THEN 1 ELSE 0,
                                          !.a = aexec[1].msg.actions,
                                          !.e = result.err],
                       apending)
        /\ alast' = Observed([alast EXCEPT
                                !.result = Some(result),
                                !.replies = Append(@, handle_message(aexec[1].msg, result)),
                                !.returned = (apc' = "accept")])
        /\ session' = Noted([session EXCEPT
                                !.reps = Append(@, handle_message(aexec[1].msg, result)),
                                !.ended = IF apc' = "accept" THEN "write" ELSE @])
    /\ UNCHANGED <<presenterVars, ends, history>>

\* ---------------------------------------------------------------- mock peer
\* Any listener at agent_addr that is not the agent (the mock servers of the
\* tests): it writes what it likes, asked or not, one write at a time (the
\* next when the presenter has read the last), and closes when it likes.

\* Bytes that are a complete frame whose payload is no message.
MalformedFrame == to_be_bytes(1) \o <<0>>

\* What one write of the mock peer can be: a whole frame, the first four
\* bytes of a frame, or the rest of it.
PeerWrites ==
    {encode_message(m) : m \in {Pong, Ack("Ok", None), Ack("Error", Some(StrMockFailure))}}
        \cup {MalformedFrame,
              SubSeq(encode_message(Ack("Ok", None)), 1, 4),
              SubSeq(encode_message(Ack("Ok", None)), 5, Len(encode_message(Ack("Ok", None))))}

\* Writes the mock peer makes on one connection, at most.
MaxPeerWrites == 2

peer_write ==
    /\ peer = "mock"
    /\ \E c \in Conn, bytes \in PeerWrites :
        /\ conns[c].cli = "open"
        /\ conns[c].srv # "closed"
        /\ conns[c].s2c = <<>>
        /\ conns[c].pw < MaxPeerWrites
        /\ conns' = [conns EXCEPT ![c].s2c = Append(@, Chunk(bytes, NoTag)),
                                  ![c].pw = @ + 1]
    /\ UNCHANGED <<presenterVars, ends, agentVars, history>>

peer_close ==
    /\ peer = "mock"
    /\ \E c \in Conn :
        /\ conns[c].cli = "open"
        /\ conns[c].srv # "closed"
        /\ conns' = [conns EXCEPT ![c].srv = "closed", ![c].pw = 0]
    /\ UNCHANGED <<presenterVars, ends, agentVars, history>>

\* -------------------------------------------------------------- test client
\* The client of the agent's tests: a TcpStream that connects, writes frames,
\* reads what comes back and is dropped.  One connection at a time: the next
\* is opened when the agent is done with the last.

\* Two writes that carry an Execute and a Ping, cut inside the Ping's payload:
\* the Execute's frame with the first six bytes of the Ping's, and the rest.
TestPieces ==
    {encode_message(Execute(<<Run, Clear>>, 80, 5)) \o SubSeq(encode_message(Ping), 1, 6),
     SubSeq(encode_message(Ping), 7, Len(encode_message(Ping)))}

\* What one write of the test client can be.
TestFrames == {encode_message(m) : m \in TestMessages} \cup {MalformedFrame} \cup TestPieces

\* Writes the test client makes on one connection, at most.
MaxTestWrites == 2

\* TcpStream::connect
test_connect ==
    /\ client = "test"
    /\ \E c \in Conn :
        /\ conns[c].cli = "unused"
        /\ \A d \in 1..(c - 1) : conns[d].cli = "closed" /\ conns[d].srv = "closed"
        /\ conns' = [conns EXCEPT ![c] = [Unused EXCEPT !.cli = "open", !.srv = "backlog"]]
        /\ session' = [NoSession EXCEPT !.conn = c, !.prev = session.ended]
    /\ UNCHANGED <<presenterVars, ends, apc, aconn, apending, idle_timeouts, aexec, alast,
                   history>>

\* stream.write_all(&encoded); the bytes reach the agent's socket unless the
\* agent has closed it.
test_write ==
    /\ client = "test"
    /\ \E c \in Conn, bytes \in TestFrames :
        /\ conns[c].cli = "open"
        /\ conns[c].pw < MaxTestWrites
        /\ conns' = IF conns[c].srv = "closed"
                    THEN [conns EXCEPT ![c].pw = @ + 1]
                    ELSE [conns EXCEPT ![c].c2s = Append(@, Chunk(bytes, NoTag)),
                                       ![c].pw = @ + 1]
        /\ session' = IF conns[c].srv = "closed" THEN session
                      ELSE [session EXCEPT !.wrote = @ \o bytes]
    /\ UNCHANGED <<presenterVars, ends, apc, aconn, apending, idle_timeouts, aexec, alast,
                   history>>

\* stream.read(&mut buf): everything the socket holds.
test_read ==
    /\ client = "test"
    /\ \E c \in Conn :
        /\ conns[c].cli = "open"
        /\ conns[c].s2c # <<>>
        /\ conns' = [conns EXCEPT ![c].s2c = <<>>]
    /\ UNCHANGED <<presenterVars, ends, agentVars, history>>

\* drop(stream): the stream and the count of its writes are gone.
test_close ==
    /\ client = "test"
    /\ \E c \in Conn :
        /\ conns[c].cli = "open"
        /\ conns' = CloseClient([conns EXCEPT ![c].pw = 0], c)
    /\ UNCHANGED <<presenterVars, ends, agentVars, history>>

\* ------------------------------------------------------------ codec, alone
\* encode_message and decode_message called as the two loops call them:
\* messages are encoded one after the other into a buffer, and the buffer is
\* decoded from its front, the consumed bytes drained, until decode_message
\* returns None or an error.

\* No function is called on its own.
NoUnit == [kind |-> "none"]

\* todo: the messages still to encode; cut: the number of bytes of the
\* encoding that reach the buffer (-1: all); buf: the buffer; res: what the
\* latest decode_message returned ("new": not called yet); before: the
\* buffer it was called with; out, used: the messages decoded and the byte
\* counts consumed.
CodecInput(kind, msgs, cut, buf) ==
    [kind |-> kind, msgs |-> msgs, todo |-> msgs, cut |-> cut, buf |-> buf,
     res |-> "new", before |-> <<>>, out |-> <<>>, used |-> <<>>]

\* The buffers decoded: the frames of up to MaxCodecMsgs messages; the first
\* k bytes of the frame of a message; a frame whose payload is no message
\* (empty, a NUL byte, {"type":"Nope"}, {"type":"Ping" without the closing
\* brace), alone or followed by other bytes; and a length prefix of
\* 0x7FFFFFFB followed by some bytes.
CodecInputs ==
    {CodecInput("messages", ms, -1, <<>>) : ms \in SeqsUpTo(CodecMessages, MaxCodecMsgs)}
        \cup UNION {{CodecInput("prefix", <<m>>, k, <<>>) :
                        k \in 0..(Len(encode_message(m)) - 1)} : m \in CodecMessages}
        \cup {CodecInput("malformed", <<>>, -1, to_be_bytes(Len(p)) \o p \o tail) :
                p \in {<<>>, <<0>>,
                       <<123, 34, 116, 121, 112, 101, 34, 58, 34, 78, 111, 112, 101, 34, 125>>,
                       SubSeq(JsPing, 1, Len(JsPing) - 1)},
                tail \in {<<>>, <<0, 0>>, encode_message(Ping)}}
        \cup {CodecInput("oversized", <<>>, -1, <<127, 255, 255, 251>> \o tail) :
                tail \in {<<>>, <<0, 0>>, encode_message(Ping)}}

\* encode_message(&msg), its bytes appended to the buffer (the first `cut`
\* of them).
codec_encode ==
    /\ unit.kind \in {"messages", "prefix"}
    /\ unit.todo # <<>>
    /\ LET encoded == encode_message(Head(unit.todo))
       IN  unit' = [unit EXCEPT
                      !.todo = Tail(@),
                      !.buf = @ \o (IF unit.cut < 0 THEN encoded
                                    ELSE SubSeq(encoded, 1, unit.cut))]
    /\ UNCHANGED <<presenterVars, conns, peer, client, agentVars, history>>

\* One turn of "while let Some((msg, consumed)) = decode_message(&pending)?
\* { pending.drain(..consumed); .. }".
codec_decode ==
    /\ unit.kind \in {"messages", "prefix", "malformed", "oversized"}
    /\ unit.todo = <<>>
    /\ unit.res \in {"new", "Some"}
    /\ LET d == decode_message(unit.buf)
       IN  unit' = IF d.r = "Some"
                   THEN [unit EXCEPT !.res = "Some",
                                     !.before = unit.buf,
                                     !.out = Append(@, d.msg),
                                     !.used = Append(@, d.consumed),
                                     !.buf = SubSeq(@, d.consumed + 1, Len(@))]
                   ELSE [unit EXCEPT !.res = d.r, !.before = unit.buf]
    /\ UNCHANGED <<presenterVars, conns, peer, client, agentVars, history>>

\* ---------------------------------------------------------- grouper, alone
\* group_into_blocks called on a script: the loop over script.lines, one
\* directive at a time with its accumulators g, then the final flush.

\* The scripts grouped: narration (the empty text of a bare "[SAY]"
\* included), actions, pauses with and without a timeout and sections, in
\* every order; and one script with every variant of
\* Directive, in the order of the enum, with each of its one-line pieces.
GroupScripts ==
    LET every == <<Say(StrOne), Type(StrOne), Run, Pause(None), Focus(StrTwo),
                   SlideNext, SlidePrev, SlideGoTo(2), Key(StrOne), Clear, Wait(1),
                   Exec(StrTwo), Section(StrOne)>>
    IN  SeqsUpTo({Say(StrOne), Say(StrTwo), Say(<<>>), Run, Clear, Pause(None),
                  Pause(Some(3)), Section(StrOne), Section(StrTwo)}, MaxGroupLen)
            \cup {every} \cup {<<every[k]>> : k \in DOMAIN every}

\* One iteration of "for parsed_line in &script.lines".
group_directive ==
    /\ unit.kind = "group"
    /\ ~unit.done
    /\ unit.i < Len(unit.lines)
    /\ unit' = [unit EXCEPT !.i = @ + 1,
                            !.g = GroupDirective(@, unit.lines[unit.i + 1])]
    /\ UNCHANGED <<presenterVars, conns, peer, client, agentVars, history>>

\* The loop is over: "Flush remaining" and return blocks.
group_finish ==
    /\ unit.kind = "group"
    /\ ~unit.done
    /\ unit.i = Len(unit.lines)
    /\ unit' = [unit EXCEPT !.done = TRUE, !.blocks = group_into_blocks(unit.lines)]
    /\ UNCHANGED <<presenterVars, conns, peer, client, agentVars, history>>

\* ------------------------------------------------------------ specification

\* Presenter::new(script, agent_addr) for a script of the bounded set, and an
\* agent in Agent::run, before its first accept.
InitWith(p, cl) ==
    /\ blocks \in {group_into_blocks(lines) : lines \in Scripts}
    /\ current = 0
    /\ connection = 0
    /\ pc = "idle"
    /\ pending = <<>>
    /\ conns = [c \in Conn |-> Unused]
    /\ peer = p
    /\ client = cl
    /\ apc = "accept"
    /\ aconn = 0
    /\ apending = <<>>
    /\ idle_timeouts = 0
    /\ aexec = <<>>
    /\ lostAt = -1
    /\ lost = FALSE
    /\ run = 0
    /\ alast = NoFrame
    /\ session = NoSession
    /\ last = [Call("new") EXCEPT !.res = "Unit"]
    /\ handshaken = {}

Init == InitWith("agent", "presenter") /\ unit = NoUnit

InitPeer == InitWith("mock", "presenter") /\ unit = NoUnit

PresenterNext ==
    \/ go_back
    \/ skip
    \/ connect_refused
    \/ connect_open
    \/ connect_read
    \/ connect_read_fails
    \/ step_local
    \/ step_not_connected
    \/ step_write_fails
    \/ step_send
    \/ step_read
    \/ step_read_fails

AgentNext ==
    \/ agent_accept
    \/ agent_read
    \/ agent_read_closed
    \/ agent_read_timeout
    \/ agent_drain
    \/ agent_executed

PeerNext ==
    \/ peer_write
    \/ peer_close

\* The presenter against the agent.
Next == PresenterNext \/ AgentNext

Spec == Init /\ [][Next]_vars

\* The presenter against any peer.
NextPeer == PresenterNext \/ PeerNext

SpecPeer == InitPeer /\ [][NextPeer]_vars

\* The agent against its test client; no presenter.
InitAgent == InitWith("agent", "test") /\ blocks = <<>> /\ unit = NoUnit

TestNext ==
    \/ test_connect
    \/ test_write
    \/ test_read
    \/ test_close

NextAgent == AgentNext \/ TestNext

SpecAgent == InitAgent /\ [][NextAgent]_vars

\* The same, with a listener.accept() that returns when a connection waits.
SpecAgentLive == SpecAgent /\ WF_vars(agent_accept)

\* The codec alone.
InitCodec == InitWith("none", "none") /\ blocks = <<>> /\ unit \in CodecInputs

SpecCodec == InitCodec /\ [][codec_encode \/ codec_decode]_vars

\* The grouper alone.
InitGrouper ==
    /\ InitWith("none", "none")
    /\ blocks = <<>>
    /\ unit \in {[kind |-> "group", lines |-> lines, i |-> 0, g |-> GroupInit,
                   done |-> FALSE, blocks |-> <<>>] : lines \in GroupScripts}

SpecGrouper == InitGrouper /\ [][group_directive \/ group_finish]_vars

\* The presenter against either.
InitAny == Init \/ InitPeer

NextAny == PresenterNext \/ AgentNext \/ PeerNext

SpecAny == InitAny /\ [][NextAny]_vars

\* ------------------------------------------------------------------- claims

\* C1: whenever step() returns AgentError or ConnectionLost, progress()
\* (cursor and total) is what it was when the call began.
C1_FailedStepKeepsProgress ==
    (last.op = "step" /\ last.res \in {"AgentError", "ConnectionLost"})
        => progress = <<last.cur0, last.total0>>

\* step() on the second block returned AgentError.
C1_Witness ==
    /\ last.op = "step"
    /\ last.res = "AgentError"
    /\ last.cur0 = 1
    /\ progress = <<1, 2>>

\* C2: step() moves the cursor past an Action block with actions only if the
\* reply it read answers the Execute this same call sent, and the executor ran
\* exactly that block's actions for it and returned success.
C2_AdvanceOnlyOnConfirmedSuccess ==
    (last.op = "step" /\ last.res = "Executed" /\ NeedsAgent(get(last.cur0)))
        => /\ last.tag.f = 1
           /\ last.tag.q = "Execute"
           /\ last.tag.x = 1
           /\ last.tag.a = blocks[last.cur0 + 1].actions

\* C3: a well-formed handshake reply other than Pong makes connect() return
\* an error and leaves is_connected() false.
C3_NonPongReplyFailsConnect ==
    (last.op = "connect" /\ last.reply # None /\ last.reply[1] # Pong)
        => (last.res = "Err" /\ ~is_connected)

\* connect() read Ack{Ok} as the reply to its Ping.
C3_Witness ==
    /\ last.op = "connect"
    /\ last.reply = Some(Ack("Ok", None))
    /\ last.res = "Err"
    /\ pc = "idle"

\* C4: a connect() whose handshake did not complete (read timeout, peer
\* closed, undecodable reply) leaves is_connected() false; between calls,
\* is_connected() holds only if a Ping/Pong round trip succeeded on the
\* connection held.
C4_ConnectedOnlyAfterHandshake ==
    /\ (last.op = "connect" /\ last.cause \in {"timeout", "closed", "decode"})
            => ~is_connected
    /\ (pc = "idle" /\ is_connected) => connection \in handshaken

\* C5: 0 <= cursor <= len(blocks), and current_block() is None exactly when
\* the cursor is len(blocks).
C5_CursorInRange ==
    /\ 0 <= current
    /\ current <= Len(blocks)
    /\ (current_block = None) <=> (current = Len(blocks))

\* skip() was called at the end of a script of two blocks.
C5_Witness ==
    /\ last.op = "skip"
    /\ last.cur0 = 2
    /\ Len(blocks) = 2
    /\ current_block = None

\* C6: a step() on an Action block with actions that has no connection, or
\* whose write or read fails, returns ConnectionLost with is_connected() false
\* and the cursor unchanged; and a step() on such a block called when a step()
\* has returned ConnectionLost and no connect() has succeeded since sends
\* nothing and returns ConnectionLost.
C6_NoNetworkUntilReconnected ==
    /\ (last.op = "step" /\ last.cause \in {"not_connected", "write", "timeout", "closed"})
            => (last.res = "ConnectionLost" /\ ~is_connected /\ current = last.cur0)
    /\ (last.op = "step" /\ last.lost0 /\ NeedsAgent(get(last.cur0)))
            => (last.sent = None /\ last.res = "ConnectionLost")

\* A step of connect(), from its call to its return.
ConnectStep == connect_refused \/ connect_open \/ connect_read \/ connect_read_fails

\* C7: connect(), successful or failed, changes neither the cursor nor the
\* block list; and the step() called after step() returned ConnectionLost and
\* connect() then returned Ok is at the block that failed, sends nothing but
\* the Execute of that block, sends it unless the connection is lost again,
\* and on Ack{Ok} returns Executed and moves one past that block.
C7_ReconnectKeepsPosition ==
    /\ [][UNCHANGED <<current, blocks>> \/ ~ConnectStep]_vars
    /\ []((last.op = "step" /\ last.after >= 0) =>
            /\ last.cur0 = last.after
            /\ NeedsAgent(get(last.after))
            /\ last.sent \in {None, Some(Execute(blocks[last.after + 1].actions,
                                                 DefaultTypingSpeed,
                                                 DefaultTypingVariance))}
            /\ (last.res \notin {"Pending", "ConnectionLost"} => last.sent # None)
            /\ (last.reply = Some(Ack("Ok", None)) =>
                    (last.res = "Executed" /\ current = last.after + 1)))

\* The second block failed with ConnectionLost, connect() returned Ok and the
\* next step() returned Executed.
C7_Witness ==
    /\ last.op = "step"
    /\ last.after = 1
    /\ last.res = "Executed"
    /\ current = 2

\* The Executes pending at the agent side: written to a connection and not
\* yet read by the agent, read and not yet decoded, or with the executor.
RECURSIVE BufferedExecutes(_)
BufferedExecutes(c) ==
    IF c = 0 THEN 0
    ELSE ExecuteReplies(conns[c].c2s) + BufferedExecutes(c - 1)

PendingExecutes == BufferedExecutes(MaxConns) + ExecuteReplies(apending) + Len(aexec)

\* C8: at most one Execute sent by the presenter is pending at the agent side.
C8_AtMostOneInFlight == PendingExecutes <= 1

\* C9: on no connection has the presenter written a second Execute while the
\* reply to an earlier Execute on that connection is still unread.
C9_NoPipelining == \A c \in Conn : conns[c].owed <= 1

\* C10: a step() that read Ack with status Ok returned Executed and moved the
\* cursor by exactly one; after n step() calls that each read Ack{Ok} (and
\* no other call than connect()), progress() is (n, total).
C10_AckOkAdvancesByOne ==
    /\ (last.op = "step" /\ last.reply # None /\ last.reply[1].type = "Ack"
            /\ last.reply[1].status = "Ok")
            => (last.res = "Executed" /\ progress = <<last.cur0 + 1, last.total0>>)
    /\ run >= 0 => progress = <<run, Len(blocks)>>

\* Two blocks, two Ack{Ok}: progress() is (2, 2).
C10_Witness ==
    /\ run = 2
    /\ progress = <<2, 2>>
    /\ last.op = "step"
    /\ last.reply = Some(Ack("Ok", None))

\* The executor failed for the Execute of the presenter's latest call and the
\* reply is on the wire.
FailureUnread ==
    \E c \in Conn : \E i \in DOMAIN conns[c].s2c :
        /\ conns[c].s2c[i].t.f = 1
        /\ conns[c].s2c[i].t.q = "Execute"
        /\ conns[c].s2c[i].t.x = 0

\* C11: when the executor fails with d for the Execute of a step(), that
\* step() is the call that reads the reply; the reply is Ack{Error, d} and the
\* step() returns AgentError(d) with the connection kept and the cursor
\* unchanged; and a step() called right after a step() that returned
\* AgentError is at the same block and sends the Execute of that block.
C11_ExecutorFailureIsRetried ==
    /\ FailureUnread => pc = "step"
    /\ (last.op = "step" /\ last.tag.f = 1 /\ last.tag.q = "Execute" /\ last.tag.x = 0)
            => /\ last.reply = Some(Ack("Error", Some(last.tag.e)))
               /\ last.res = "AgentError"
               /\ last.val = last.tag.e
               /\ is_connected
               /\ current = last.cur0
    /\ (last.op = "step" /\ last.retry >= 0)
            => /\ last.cur0 = last.retry
               /\ last.sent \in {None, Some(Execute(blocks[last.retry + 1].actions,
                                                    DefaultTypingSpeed,
                                                    DefaultTypingVariance))}
               /\ (last.sent = None => last.res = "ConnectionLost")

\* C12: a reply to an Execute that is a well-formed message other than an Ack
\* makes step() return AgentError("Unexpected response from agent") with the
\* cursor unchanged and the connection kept.
C12_UnexpectedReplyIsAgentError ==
    (last.op = "step" /\ last.reply # None /\ last.reply[1].type # "Ack")
        => /\ last.res = "AgentError"
           /\ last.val = StrUnexpectedResponse
           /\ current = last.cur0
           /\ is_connected

\* step() read a Pong as the reply to its Execute.
C12_Witness ==
    /\ last.op = "step"
    /\ last.sent # None
    /\ last.reply = Some(Pong)
    /\ last.res = "AgentError"
    /\ pc = "idle"

\* C13: a length-complete reply frame whose payload is no message makes
\* step() return AgentError with the cursor unchanged and the connection
\* kept open, not ConnectionLost.
C13_MalformedReplyIsAgentError ==
    (last.op = "step" /\ last.cause = "decode")
        => /\ last.res = "AgentError"
           /\ current = last.cur0
           /\ is_connected

\* A step of step(), from its call to its return.
StepStep ==
    \/ step_local
    \/ step_not_connected
    \/ step_write_fails
    \/ step_send
    \/ step_read
    \/ step_read_fails

\* The block at cursor i is a NarrationOnly or a Pause block.
LocalBlock(i) ==
    /\ get(i) # None
    /\ get(i)[1].block_type.t \in {"NarrationOnly", "Pause"}

\* C14: step() on a NarrationOnly or Pause(t) block sends nothing, returns at
\* once with NarrationOnly or Paused(t), moves the cursor by exactly one and
\* leaves the connection and the sockets as they are, connected or not.
C14_LocalBlocksNoNetwork ==
    /\ []((last.op = "step" /\ LocalBlock(last.cur0)) =>
            /\ pc = "idle"
            /\ last.sent = None
            /\ current = last.cur0 + 1
            /\ get(last.cur0)[1].block_type.t = "NarrationOnly"
                    => (last.res = "NarrationOnly" /\ last.val = <<>>)
            /\ get(last.cur0)[1].block_type.t = "Pause"
                    => (last.res = "Paused"
                        /\ last.val = get(last.cur0)[1].block_type.timeout))
    /\ [][\/ UNCHANGED <<connection, conns, pending, blocks>>
          \/ ~LocalBlock(current)
          \/ ~StepStep]_vars

\* step() on a Pause(3) block without a connection returned Paused(3).
C14_Witness ==
    /\ last.op = "step"
    /\ last.res = "Paused"
    /\ last.val = Some(3)
    /\ ~is_connected
    /\ current = last.cur0 + 1

\* C15: step() with the cursor at len(blocks) returns Finished, sends nothing
\* and changes neither the cursor nor the connection; so does every later one.
C15_FinishedIsIdempotent ==
    /\ []((last.op = "step" /\ last.cur0 = last.total0) =>
            /\ pc = "idle"
            /\ last.res = "Finished"
            /\ last.sent = None
            /\ current = last.cur0)
    /\ [][\/ UNCHANGED <<current, connection, conns, pending, blocks>>
          \/ current # Len(blocks)
          \/ ~StepStep]_vars

\* step() returned Finished at the end of a script of two blocks, connected.
C15_Witness ==
    /\ last.op = "step"
    /\ last.res = "Finished"
    /\ current = 2
    /\ Len(blocks) = 2
    /\ is_connected

\* C16: go_back() sets the cursor to max(cursor - 1, 0), skip() to
\* min(cursor + 1, len(blocks)); neither touches the connection, the sockets
\* or the blocks.
C16_NavigationIsClamped ==
    /\ [](last.op = "go_back" =>
            current = IF last.cur0 - 1 > 0 THEN last.cur0 - 1 ELSE 0)
    /\ [](last.op = "skip" =>
            current = IF last.cur0 + 1 < last.total0 THEN last.cur0 + 1 ELSE last.total0)
    /\ [][\/ UNCHANGED <<connection, conns, pending, blocks>>
          \/ ~(go_back \/ skip)]_vars

\* go_back() was called at the first block, with a connection: a no-op.
C16_Witness ==
    /\ last.op = "go_back"
    /\ last.cur0 = 0
    /\ current = 0
    /\ Len(blocks) > 0
    /\ is_connected

\* The latest reply the agent wrote for alast, if the client has not read it
\* yet, is the last thing on the wire.
ReplyOnWire ==
    (alast.replies # <<>> /\ conns[alast.conn].s2c # <<>>)
        => conns[alast.conn].s2c[Len(conns[alast.conn].s2c)].b
                = encode_message(alast.replies[Len(alast.replies)])

\* C17: for an Execute the agent invokes the executor exactly once with the
\* actions, typing_speed and typing_variance of the message, does nothing else
\* until it returns, and then writes exactly one reply: Ack{Ok, none} on
\* success, Ack{Error, description} on failure.
C17_ExecuteRunsOnceAndIsAcked ==
    (alast.kind = "message" /\ alast.msg.type = "Execute")
        => /\ alast.calls = <<[actions |-> alast.msg.actions,
                               typing_speed |-> alast.msg.typing_speed,
                               typing_variance |-> alast.msg.typing_variance]>>
           /\ (alast.result = None) <=> (apc = "exec")
           /\ alast.result = None => alast.replies = <<>>
           /\ alast.result # None =>
                alast.replies = <<IF alast.result[1].ok THEN Ack("Ok", None)
                                  ELSE Ack("Error", Some(alast.result[1].err))>>
           /\ ReplyOnWire

\* The executor failed for Execute{[Run, Clear], 80, 5} and the Ack{Error} is
\* on the wire.
C17_Witness ==
    /\ alast.msg = Execute(<<Run, Clear>>, 80, 5)
    /\ alast.result = Some([ok |-> FALSE, err |-> StrMockFailure])
    /\ alast.replies = <<Ack("Error", Some(StrMockFailure))>>
    /\ conns[alast.conn].s2c # <<>>

\* C18: for a Ping, first on the connection or not, the agent writes exactly
\* one reply, Pong, and does not invoke the executor.
C18_PingIsPonged ==
    (alast.kind = "message" /\ alast.msg.type = "Ping")
        => /\ alast.calls = <<>>
           /\ alast.result = None
           /\ alast.replies = <<Pong>>
           /\ apc # "exec"
           /\ ReplyOnWire

\* A Ping that came after an Execute on the same connection was answered.
C18_Witness ==
    /\ alast.msg = Ping
    /\ alast.kind = "message"
    /\ alast.before = "Execute"
    /\ alast.replies = <<Pong>>
    /\ conns[alast.conn].s2c # <<>>

\* C19: an Ack or a Pong sent to the agent is answered with
\* Ack{Error, "Unexpected message type"} without the executor; handling it
\* does not end the connection: handle_connection returns then only if the
\* write fails because the client is gone, and otherwise the connection stays
\* open as long as the agent serves it.
C19_UnexpectedMessageIsRejected ==
    (alast.kind = "message" /\ alast.msg.type \in {"Ack", "Pong"})
        => /\ alast.calls = <<>>
           /\ alast.result = None
           /\ alast.replies = <<Ack("Error", Some(StrUnexpectedMessageType))>>
           /\ apc # "exec"
           /\ alast.returned => conns[alast.conn].cli = "closed"
           /\ (~alast.returned /\ aconn = alast.conn)
                => conns[alast.conn].srv = "open"
           /\ ReplyOnWire

\* An Ack was rejected and the agent is back in read on the same connection,
\* the client still there.
C19_Witness ==
    /\ alast.kind = "message"
    /\ alast.msg = Ack("Ok", None)
    /\ alast.replies = <<Ack("Error", Some(StrUnexpectedMessageType))>>
    /\ apc = "read"
    /\ aconn = alast.conn
    /\ conns[alast.conn].cli = "open"

\* C20: on a length-complete frame whose payload is no message the agent
\* writes no reply and runs nothing, handle_connection returns and the
\* connection is closed with whatever was unread on it, and the agent is in
\* accept or serving a later connection.
C20_MalformedFrameClosesConnection ==
    alast.kind = "malformed"
        => /\ alast.replies = <<>>
           /\ alast.calls = <<>>
           /\ alast.returned
           /\ conns[alast.conn].srv = "closed"
           /\ conns[alast.conn].c2s = <<>>
           /\ aconn # alast.conn
           /\ apc = "accept" \/ aconn > alast.conn

\* A malformed frame after a Ping ended the first connection; the agent is in
\* accept and the second connection waits there.
C20_Witness ==
    /\ alast.kind = "malformed"
    /\ alast.before = "Ping"
    /\ alast.conn = 1
    /\ apc = "accept"
    /\ conns[2].srv = "backlog"

\* C21: while the agent serves a connection idle_timeouts is the number of
\* read timeouts since its last read of bytes on it (since the accept, if
\* there was none) and is below 10: a timeout below the tenth leaves the
\* connection open, and handle_connection returns for idleness exactly at the
\* tenth timeout in a row.
C21_IdleCounterCountsConsecutiveTimeouts ==
    /\ (aconn # 0 /\ aconn = session.conn)
            => /\ idle_timeouts = session.timeouts
               /\ idle_timeouts < MAX_IDLE_TIMEOUTS
               /\ session.ended = "none"
               /\ conns[aconn].srv = "open"
    /\ session.ended = "idle"
            => /\ session.timeouts = MAX_IDLE_TIMEOUTS
               /\ conns[session.conn].srv = "closed"
    /\ (session.ended # "none" /\ session.timeouts >= MAX_IDLE_TIMEOUTS)
            => session.ended = "idle"

\* The agent answered a Ping, then saw ten timeouts in a row and closed the
\* connection.
C21_Witness ==
    /\ session.ended = "idle"
    /\ session.reqs = <<Ping>>
    /\ session.timeouts = 10
    /\ conns[session.conn].cli = "open"

\* C22: however handle_connection returns (read of 0 bytes or read error,
\* write error, decode error, tenth timeout), the connection is closed and the
\* agent is in accept with nothing left of it; a connection that waits is
\* accepted, whatever ended the one before, and a Ping on it is answered with
\* Pong.
C22_AgentServesNextConnection ==
    /\ [](session.ended # "none"
            => /\ session.ended \in {"closed", "write", "malformed", "idle"}
               /\ conns[session.conn].srv = "closed"
               /\ apc = "accept"
               /\ aconn = 0
               /\ apending = <<>>
               /\ idle_timeouts = 0)
    /\ []((session.prev # "none" /\ alast.conn = session.conn /\ alast.msg = Ping
                /\ alast.kind = "message")
            => alast.replies = <<Pong>>)
    /\ \A c \in Conn : (conns[c].srv = "backlog") ~> (aconn = c)

\* The first connection ended with the tenth timeout; on the second the agent
\* answered a Ping and the Pong is on the wire.
C22_Witness ==
    /\ session.prev = "idle"
    /\ session.conn = 2
    /\ alast.conn = 2
    /\ alast.msg = Ping
    /\ alast.replies = <<Pong>>
    /\ conns[2].s2c # <<>>

\* The messages of a byte stream, decoded from its front one after the other
\* as far as it holds complete well-formed frames.
RECURSIVE DecodeAll(_)
DecodeAll(buf) ==
    LET d == decode_message(buf)
    IN  IF d.r = "Some"
        THEN <<d.msg>> \o DecodeAll(SubSeq(buf, d.consumed + 1, Len(buf)))
        ELSE <<>>

\* The frames of a sequence of messages, one after the other.
RECURSIVE EncodeAll(_)
EncodeAll(ms) == IF ms = <<>> THEN <<>> ELSE encode_message(Head(ms)) \o EncodeAll(Tail(ms))

\* The bytes of the session's connection the agent has read.
SessionRead ==
    SubSeq(session.wrote, 1,
           Len(session.wrote) - Len(StreamBytes(conns[session.conn].c2s)))

\* v is the end of w.
IsSuffix(v, w) ==
    /\ Len(v) <= Len(w)
    /\ v = SubSeq(w, Len(w) - Len(v) + 1, Len(w))

\* C23: on a connection the messages the agent has handled are, in order, the
\* first messages of the byte stream the client wrote, however the writes
\* and the reads cut it; each is replied to before the next is handled (at
\* most the one in the executor has no reply yet), the i-th reply answering
\* the i-th message; the agent reads again only when every complete message
\* of what it has read is handled; and what is on the wire to the client is
\* the end of the replies written, in their order.
C23_MessagesHandledInArrivalOrder ==
    session.conn # 0 =>
        /\ Len(session.reqs) <= Len(DecodeAll(session.wrote))
        /\ session.reqs = SubSeq(DecodeAll(session.wrote), 1, Len(session.reqs))
        /\ Len(session.reqs)
                = Len(session.reps) + (IF aconn = session.conn /\ apc = "exec" THEN 1 ELSE 0)
        /\ \A i \in DOMAIN session.reps :
                CASE session.reqs[i].type = "Ping" -> session.reps[i] = Pong
                  [] session.reqs[i].type = "Execute" ->
                        session.reps[i] \in {Ack("Ok", None)} \cup
                            {Ack("Error", Some(e)) : e \in ExecutorErrors}
                  [] OTHER -> session.reps[i] = Ack("Error", Some(StrUnexpectedMessageType))
        /\ (aconn = session.conn /\ apc = "read")
                => session.reqs = DecodeAll(SessionRead)
        /\ IsSuffix(StreamBytes(conns[session.conn].s2c), EncodeAll(session.reps))

\* One read brought an Execute and the first six bytes of a Ping: the Execute
\* was run and acknowledged and the agent is in read with the six bytes kept,
\* the rest of the Ping written and not read yet.
C23_Witness ==
    /\ session.wrote = encode_message(Execute(<<Run, Clear>>, 80, 5)) \o encode_message(Ping)
    /\ session.reqs = <<Execute(<<Run, Clear>>, 80, 5)>>
    /\ session.reps = <<Ack("Ok", None)>>
    /\ apc = "read"
    /\ StreamBytes(apending) = SubSeq(encode_message(Ping), 1, 6)
    /\ conns[session.conn].c2s # <<>>

\* C24: the agent has at most one connection open, the one it serves, and at
\* most one executor call running, for that connection; a connection it has
\* not accepted yet has no reply, whatever was written on it; replies are
\* written on the served connection only; and when the agent turns to
\* another connection its buffer is empty and its idle counter 0.
C24_OneConnectionAtATime ==
    /\ [](/\ {c \in Conn : conns[c].srv = "open"} = (IF aconn = 0 THEN {} ELSE {aconn})
          /\ (aconn = 0) <=> (apc = "accept")
          /\ Len(aexec) <= 1
          /\ (aexec # <<>>) <=> (apc = "exec")
          /\ \A c \in Conn : conns[c].srv \in {"unused", "backlog"} => conns[c].s2c = <<>>)
    /\ [][\A c \in Conn : Len(conns'[c].s2c) > Len(conns[c].s2c) => c = aconn]_vars
    /\ [][aconn' # aconn => (apending' = <<>> /\ idle_timeouts' = 0 /\ aexec' = <<>>)]_vars

\* The executor runs for connection 1 while connection 2 waits with the
\* presenter's Ping unanswered.
C24_Witness ==
    /\ apc = "exec"
    /\ aconn = 1
    /\ conns[2].srv = "backlog"
    /\ conns[2].c2s # <<>>
    /\ conns[2].s2c = <<>>
    /\ pc = "connect"

\* C25: the frame of a message m is the big-endian length of its payload in
\* four bytes and the payload, and decode_message on the frame returns m and
\* the length of the frame.
C25_FramingRoundTrip ==
    (unit.kind = "messages" /\ Len(unit.msgs) = 1 /\ unit.todo = <<>>)
        => /\ unit.res = "new"
                => /\ unit.buf = encode_message(unit.msgs[1])
                   /\ Len(unit.buf) > 4
                   /\ unit.buf[1] * 16777216 + unit.buf[2] * 65536 + unit.buf[3] * 256
                        + unit.buf[4] = Len(unit.buf) - 4
           /\ unit.res # "new"
                => /\ unit.out = unit.msgs
                   /\ unit.used = <<Len(encode_message(unit.msgs[1]))>>

\* The Execute that types  a"b\<newline>  came back from its frame.
C25_Witness ==
    /\ unit.kind = "messages"
    /\ unit.msgs = <<Execute(<<Type(<<97, 34, 98, 92, 10>>)>>, 1000000, 7)>>
    /\ unit.out = unit.msgs
    /\ unit.res = "Some"
    /\ unit.buf = <<>>

\* C26: decode_message on the first k bytes of a frame, k less than its
\* length, returns None: no message, no error, and the buffer is what it was.
C26_PartialBufferNeedsMoreData ==
    (unit.kind = "prefix" /\ unit.res # "new")
        => /\ unit.res = "None"
           /\ unit.out = <<>>
           /\ unit.used = <<>>
           /\ unit.buf = unit.before
           /\ unit.buf = SubSeq(encode_message(unit.msgs[1]), 1, unit.cut)
           /\ unit.cut < Len(encode_message(unit.msgs[1]))

\* The length and the first byte of the payload of a Ping were there: None.
C26_Witness ==
    /\ unit.kind = "prefix"
    /\ unit.msgs = <<Ping>>
    /\ unit.cut = 5
    /\ unit.res = "None"

\* C27: decoding the frames of m1..mn from the front and draining what each
\* call consumed gives m1, .., mn in this order, the i-th call consuming the
\* length of the i-th frame whatever follows it, without error, and None on
\* the empty buffer after the last.
C27_MultiMessageDraining ==
    (unit.kind = "messages" /\ unit.todo = <<>>)
        => /\ unit.res # "Err"
           /\ Len(unit.out) <= Len(unit.msgs)
           /\ unit.out = SubSeq(unit.msgs, 1, Len(unit.out))
           /\ Len(unit.used) = Len(unit.out)
           /\ \A i \in DOMAIN unit.used : unit.used[i] = Len(encode_message(unit.msgs[i]))
           /\ unit.buf = EncodeAll(SubSeq(unit.msgs, Len(unit.out) + 1, Len(unit.msgs)))
           /\ unit.res = "None" => (unit.out = unit.msgs /\ unit.buf = <<>>)

\* An Ack and a Ping were decoded from one buffer, and the buffer is empty.
C27_Witness ==
    /\ unit.kind = "messages"
    /\ unit.msgs = <<Ack("Error", Some(StrMockFailure)), Ping>>
    /\ unit.out = unit.msgs
    /\ unit.res = "None"
    /\ unit.buf = <<>>

\* C28: when the buffer begins with a complete frame whose payload is no
\* message, decode_message returns an error, whatever follows the frame.
C28_MalformedPayloadIsAnError ==
    (unit.kind = "malformed" /\ unit.res # "new")
        => /\ unit.res = "Err"
           /\ unit.out = <<>>
           /\ Len(unit.before) >= 4 + from_be_bytes(SubSeq(unit.before, 1, 4))

\* The payload {"type":"Nope"} followed by the frame of a Ping: an error.
C28_Witness ==
    /\ unit.kind = "malformed"
    /\ unit.res = "Err"
    /\ Len(unit.before) = 4 + 15 + Len(encode_message(Ping))
    /\ unit.before[5] = 123

\* C29: decode_message on a buffer whose length prefix is 0x7FFFFFFB returns
\* an error.
C29_OversizedLengthIsAnError ==
    (unit.kind = "oversized" /\ unit.res # "new") => unit.res = "Err"

\* C30: every block group_into_blocks has pushed or returns that is a Pause
\* or a NarrationOnly block has an empty action list.
C30_PauseAndNarrationBlocksHaveNoActions ==
    unit.kind = "group"
        => \A bs \in {unit.g.blocks, unit.blocks} : \A i \in DOMAIN bs :
                bs[i].block_type.t \in {"Pause", "NarrationOnly"} => bs[i].actions = <<>>

\* Run, Pause(3), Say gave an Action block, a Pause block and a NarrationOnly
\* block.
C30_Witness ==
    /\ unit.kind = "group"
    /\ unit.done
    /\ unit.lines = <<Run, Pause(Some(3)), Say(StrOne)>>
    /\ Len(unit.blocks) = 3
    /\ unit.blocks[1].actions = <<Run>>
    /\ unit.blocks[2].block_type = BtPause(Some(3))
    /\ unit.blocks[3].block_type = BtNarrationOnly

\* The kinds of directive that stay with the presenter.
LocalKinds == {"Say", "Pause", "Section"}

\* The blocks the grouper has pushed so far, and the blocks it returned.
GroupedSoFar == {unit.g.blocks, unit.blocks}

\* The directives in the action lists of blocks bs, in block order.
RECURSIVE AllActions(_)
AllActions(bs) == IF bs = <<>> THEN <<>> ELSE Head(bs).actions \o AllActions(Tail(bs))

\* C31: no action list the grouper builds holds a Say, Pause or Section
\* directive, so the Execute step() builds from a block's actions carries
\* none; every directive of the script of another variant is in the pending
\* actions or in a block's action list once its line was processed, and in a
\* returned block's action list at the end.
C31_LocalDirectivesStayLocal ==
    unit.kind = "group"
        => /\ \A bs \in GroupedSoFar : \A i \in DOMAIN bs :
                LET msg == Execute(bs[i].actions, DefaultTypingSpeed, DefaultTypingVariance)
                IN  \A j \in DOMAIN msg.actions : msg.actions[j].k \notin LocalKinds
           /\ \A j \in DOMAIN unit.g.actions : unit.g.actions[j].k \notin LocalKinds
           /\ \A k \in 1..unit.i :
                unit.lines[k].k \notin LocalKinds
                    => LET placed == AllActions(unit.g.blocks) \o unit.g.actions
                       IN  \E j \in DOMAIN placed : placed[j] = unit.lines[k]
           /\ unit.done
                => \A k \in DOMAIN unit.lines :
                        unit.lines[k].k \notin LocalKinds
                            => \E i \in DOMAIN unit.blocks : \E j \in DOMAIN unit.blocks[i].actions :
                                    unit.blocks[i].actions[j] = unit.lines[k]

\* The script with every variant of Directive was grouped: its ten executable
\* directives are in the two Action blocks around the Pause block.
C31_Witness ==
    /\ unit.kind = "group"
    /\ unit.done
    /\ Len(unit.lines) = 13
    /\ Len(unit.blocks) = 3
    /\ unit.blocks[1].actions = <<Type(StrOne), Run>>
    /\ unit.blocks[2].block_type = BtPause(None)
    /\ unit.blocks[3].actions = <<Focus(StrTwo), SlideNext, SlidePrev, SlideGoTo(2),
                                   Key(StrOne), Clear, Wait(1), Exec(StrTwo)>>

\* The texts of the Say directives of ls, in order.
RECURSIVE SayTexts(_)
SayTexts(ls) ==
    IF ls = <<>> THEN <<>>
    ELSE (IF Head(ls).k = "Say" THEN <<Head(ls).s>> ELSE <<>>) \o SayTexts(Tail(ls))

\* Texts joined by newline, absent when there are none.
RECURSIVE NewlineJoined(_)
NewlineJoined(texts) ==
    IF texts = <<>> THEN None
    ELSE IF Len(texts) = 1 THEN Some(texts[1])
    ELSE Some(texts[1] \o <<10>> \o NewlineJoined(Tail(texts))[1])

\* Line k of ls makes the grouper push a block: a Pause always, a Say or a
\* Section when the line before it is an executable directive.
Pushes(ls, k) ==
    \/ ls[k].k = "Pause"
    \/ ls[k].k \in {"Say", "Section"} /\ k > 1 /\ ls[k - 1].k \notin LocalKinds

\* The last line among the first i of ls that pushed a block, 1 if none did.
LastPush(ls, i) ==
    LET ks == {k \in 1..i : Pushes(ls, k)}
    IN  IF ks = {} THEN 1 ELSE CHOOSE k \in ks : \A m \in ks : m <= k

\* The blocks after the step that is being taken.
GroupedNext == IF unit'.done THEN unit'.blocks ELSE unit'.g.blocks

\* C32: a Say with actions pending pushes one Action block with all pending
\* narration, the pending actions and the current section, and its text
\* becomes the pending narration; a Say without pending actions pushes nothing
\* and appends its text; the pending narration is the Say texts since the last
\* push, in order, and a pushed block's narration is their newline join.
C32_SayAccumulatesNarration ==
    /\ [](unit.kind = "group"
            => unit.g.narration
                 = SayTexts(SubSeq(unit.lines, LastPush(unit.lines, unit.i), unit.i)))
    /\ [][UNCHANGED unit
            \/ ~(unit.kind = "group" /\ unit.i < Len(unit.lines)
                    /\ unit.lines[unit.i + 1].k = "Say")
            \/ LET g == unit.g
                   text == unit.lines[unit.i + 1].s
               IN  /\ unit'.g.section = g.section
                   /\ unit'.g.actions = <<>>
                   /\ IF g.actions # <<>>
                      THEN /\ unit'.g.blocks
                                = Append(g.blocks,
                                         [narration |-> NewlineJoined(g.narration),
                                          actions |-> g.actions,
                                          section |-> g.section,
                                          block_type |-> BtAction])
                           /\ unit'.g.narration = <<text>>
                      ELSE /\ unit'.g.blocks = g.blocks
                           /\ unit'.g.narration = Append(g.narration, text)]_vars
    /\ [][UNCHANGED unit
            \/ unit.kind # "group"
            \/ LET old == Len(unit.g.blocks)
               IN  Len(GroupedNext) > old
                     => /\ GroupedNext[old + 1].narration = NewlineJoined(unit.g.narration)
                        /\ \A i \in (old + 2)..Len(GroupedNext) :
                                GroupedNext[i].narration = None]_vars

\* Say one, Say two, Run, Say one: the last Say pushed the Action block with
\* both earlier texts and left its own text pending.
C32_Witness ==
    /\ unit.kind = "group"
    /\ unit.lines = <<Say(StrOne), Say(StrTwo), Run, Say(StrOne)>>
    /\ unit.i = 4
    /\ Len(unit.g.blocks) = 1
    /\ unit.g.blocks[1].narration = Some(StrOne \o <<10>> \o StrTwo)
    /\ unit.g.blocks[1].actions = <<Run>>
    /\ unit.g.narration = <<StrOne>>

\* The block types Pause(t) of the Pause directives of ls, in order.
RECURSIVE PausesOf(_)
PausesOf(ls) ==
    IF ls = <<>> THEN <<>>
    ELSE (IF Head(ls).k = "Pause" THEN <<[t |-> "Pause", timeout |-> Head(ls).n]>> ELSE <<>>)
            \o PausesOf(Tail(ls))

\* The block types of the Pause blocks of bs, in order.
RECURSIVE PauseBlocksOf(_)
PauseBlocksOf(bs) ==
    IF bs = <<>> THEN <<>>
    ELSE (IF Head(bs).block_type.t = "Pause" THEN <<Head(bs).block_type>> ELSE <<>>)
            \o PauseBlocksOf(Tail(bs))

\* C33: the Pause blocks are, in order and with their timeouts, the Pause
\* directives processed, each with no actions; a Pause with actions pending
\* pushes an Action block with the pending narration, actions and section and
\* then a Pause block without narration; a Pause without pending actions
\* pushes one Pause block with the pending narration.
C33_PauseIsItsOwnBlock ==
    /\ [](unit.kind = "group"
            => /\ PauseBlocksOf(unit.g.blocks) = PausesOf(SubSeq(unit.lines, 1, unit.i))
               /\ unit.done => PauseBlocksOf(unit.blocks) = PausesOf(unit.lines)
               /\ \A bs \in GroupedSoFar : \A i \in DOMAIN bs :
                        bs[i].block_type.t = "Pause" => bs[i].actions = <<>>)
    /\ [][UNCHANGED unit
            \/ ~(unit.kind = "group" /\ unit.i < Len(unit.lines)
                    /\ unit.lines[unit.i + 1].k = "Pause")
            \/ LET g == unit.g
                   pause == [t |-> "Pause", timeout |-> unit.lines[unit.i + 1].n]
               IN  /\ unit'.g.section = g.section
                   /\ unit'.g.actions = <<>>
                   /\ unit'.g.narration = <<>>
                   /\ IF g.actions # <<>>
                      THEN unit'.g.blocks
                             = g.blocks
                                \o <<[narration |-> NewlineJoined(g.narration),
                                      actions |-> g.actions,
                                      section |-> g.section,
                                      block_type |-> BtAction],
                                     [narration |-> None,
                                      actions |-> <<>>,
                                      section |-> g.section,
                                      block_type |-> pause]>>
                      ELSE unit'.g.blocks
                             = Append(g.blocks,
                                      [narration |-> NewlineJoined(g.narration),
                                       actions |-> <<>>,
                                       section |-> g.section,
                                       block_type |-> pause])]_vars

\* Run, Pause(3), Say two, Pause: the first Pause flushed Run into its own
\* block, the second took the narration.
C33_Witness ==
    /\ unit.kind = "group"
    /\ unit.lines = <<Run, Pause(Some(3)), Say(StrTwo), Pause(None)>>
    /\ unit.i = 4
    /\ ~unit.done
    /\ Len(unit.g.blocks) = 3
    /\ unit.g.blocks[1].actions = <<Run>>
    /\ unit.g.blocks[2] = [narration |-> None, actions |-> <<>>, section |-> None,
                            block_type |-> BtPause(Some(3))]
    /\ unit.g.blocks[3] = [narration |-> Some(StrTwo), actions |-> <<>>, section |-> None,
                            block_type |-> BtPause(None)]

\* The name of the last Section directive of ls, absent when there is none.
RECURSIVE LastSection(_)
LastSection(ls) ==
    IF ls = <<>> THEN None
    ELSE IF ls[Len(ls)].k = "Section" THEN Some(ls[Len(ls)].s)
    ELSE LastSection(SubSeq(ls, 1, Len(ls) - 1))

\* C34: the current section is the name of the last Section processed; a
\* Section with actions pending pushes one Action block with the pending
\* narration and the section current before the change; a Section without
\* pending actions pushes nothing and keeps the pending narration; every block
\* pushed by any step has the section that was current before that step.
C34_SectionTagsBlocksAtFlush ==
    /\ [](unit.kind = "group"
            => unit.g.section = LastSection(SubSeq(unit.lines, 1, unit.i)))
    /\ [][UNCHANGED unit
            \/ ~(unit.kind = "group" /\ unit.i < Len(unit.lines)
                    /\ unit.lines[unit.i + 1].k = "Section")
            \/ LET g == unit.g
               IN  /\ unit'.g.section = Some(unit.lines[unit.i + 1].s)
                   /\ unit'.g.actions = <<>>
                   /\ IF g.actions # <<>>
                      THEN /\ unit'.g.blocks
                                = Append(g.blocks,
                                         [narration |-> NewlineJoined(g.narration),
                                          actions |-> g.actions,
                                          section |-> g.section,
                                          block_type |-> BtAction])
                           /\ unit'.g.narration = <<>>
                      ELSE /\ unit'.g.blocks = g.blocks
                           /\ unit'.g.narration = g.narration]_vars
    /\ [][UNCHANGED unit
            \/ unit.kind # "group"
            \/ \A i \in (Len(unit.g.blocks) + 1)..Len(GroupedNext) :
                    GroupedNext[i].section = unit.g.section]_vars

\* Say one, Section one, Run, Section two: the first Section pushed nothing
\* and kept the narration, the second pushed the Action block under the first
\* section and then changed the section.
C34_Witness ==
    /\ unit.kind = "group"
    /\ unit.lines = <<Say(StrOne), Section(StrOne), Run, Section(StrTwo)>>
    /\ unit.i = 4
    /\ ~unit.done
    /\ unit.g.blocks = <<[narration |-> Some(StrOne), actions |-> <<Run>>,
                           section |-> Some(StrOne), block_type |-> BtAction]>>
    /\ unit.g.section = Some(StrTwo)
    /\ unit.g.narration = <<>>

\* C35: the final flush appends to the blocks pushed by the loop one Action
\* block with the pending narration when actions are pending, else one
\* NarrationOnly block when narration is pending, else nothing; an empty
\* script gives no blocks; the loop pushes no NarrationOnly block, and a
\* NarrationOnly block of the result is its last block.
C35_EndOfInputFlush ==
    /\ [](unit.kind = "group"
            => /\ \A i \in DOMAIN unit.g.blocks :
                        unit.g.blocks[i].block_type.t # "NarrationOnly"
               /\ \A i \in DOMAIN unit.blocks :
                        unit.blocks[i].block_type.t = "NarrationOnly" => i = Len(unit.blocks)
               /\ (unit.done /\ unit.lines = <<>>) => unit.blocks = <<>>)
    /\ [][UNCHANGED unit
            \/ ~(unit.kind = "group" /\ unit.i = Len(unit.lines) /\ ~unit.done)
            \/ LET g == unit.g
               IN  /\ unit'.done
                   /\ unit'.blocks
                        = IF g.actions # <<>>
                          THEN Append(g.blocks, [narration |-> NewlineJoined(g.narration),
                                                 actions |-> g.actions,
                                                 section |-> g.section,
                                                 block_type |-> BtAction])
                          ELSE IF g.narration # <<>>
                          THEN Append(g.blocks, [narration |-> NewlineJoined(g.narration),
                                                 actions |-> <<>>,
                                                 section |-> g.section,
                                                 block_type |-> BtNarrationOnly])
                          ELSE g.blocks]_vars

\* Section one, Run, Say one, Say two: the script ended with narration
\* pending and no actions.
C35_Witness ==
    /\ unit.kind = "group"
    /\ unit.done
    /\ unit.lines = <<Section(StrOne), Run, Say(StrOne), Say(StrTwo)>>
    /\ unit.blocks = <<[narration |-> None, actions |-> <<Run>>,
                         section |-> Some(StrOne), block_type |-> BtAction],
                        [narration |-> Some(StrOne \o <<10>> \o StrTwo), actions |-> <<>>,
                         section |-> Some(StrOne), block_type |-> BtNarrationOnly]>>

\* C36: every Action block the grouper pushes or returns has a non-empty
\* action list, so step() takes its sending branch for it; a script that ends
\* with narration pending and no actions pending ends in a NarrationOnly
\* block.
C36_ActionBlocksHaveActions ==
    unit.kind = "group"
        => /\ \A bs \in GroupedSoFar : \A i \in DOMAIN bs :
                bs[i].block_type.t = "Action"
                    => bs[i].actions # <<>> /\ NeedsAgent(Some(bs[i]))
           /\ (unit.done /\ unit.g.actions = <<>> /\ unit.g.narration # <<>>)
                => unit.blocks[Len(unit.blocks)].block_type = BtNarrationOnly

\* Say one, Run, Say two: the trailing narration is a NarrationOnly block
\* after the Action block.
C36_Witness ==
    /\ unit.kind = "group"
    /\ unit.done
    /\ unit.lines = <<Say(StrOne), Run, Say(StrTwo)>>
    /\ Len(unit.blocks) = 2
    /\ unit.blocks[1].block_type = BtAction
    /\ unit.blocks[1].actions = <<Run>>
    /\ unit.blocks[2].block_type = BtNarrationOnly
    /\ unit.blocks[2].narration = Some(StrTwo)

\* The directives of ls that are not Say, Pause or Section, in order.
RECURSIVE Executables(_)
Executables(ls) ==
    IF ls = <<>> THEN <<>>
    ELSE (IF Head(ls).k \in LocalKinds THEN <<>> ELSE <<Head(ls)>>) \o Executables(Tail(ls))

\* C37: the action lists of the blocks pushed so far, in block order,
\* followed by the pending actions, are the executable directives processed
\* so far in script order; the action lists of the returned blocks are the
\* executable directives of the whole script in script order.
C37_ActionsKeptInOrder ==
    unit.kind = "group"
        => /\ AllActions(unit.g.blocks) \o unit.g.actions
                = Executables(SubSeq(unit.lines, 1, unit.i))
           /\ unit.done => AllActions(unit.blocks) = Executables(unit.lines)

\* Run, Say one, Clear, Run: three executable directives in two blocks.
C37_Witness ==
    /\ unit.kind = "group"
    /\ unit.done
    /\ unit.lines = <<Run, Say(StrOne), Clear, Run>>
    /\ Len(unit.blocks) = 2
    /\ unit.blocks[1].actions = <<Run>>
    /\ unit.blocks[2].actions = <<Clear, Run>>

\* The narrations of the blocks of bs that have one, in block order.
RECURSIVE NarrationsOf(_)
NarrationsOf(bs) ==
    IF bs = <<>> THEN <<>> ELSE Head(bs).narration \o NarrationsOf(Tail(bs))

\* The number of texts joined in a narration whose texts have no newline.
TextsIn(narration) == 1 + Cardinality({j \in DOMAIN narration : narration[j] = 10})

RECURSIVE TextsInAll(_)
TextsInAll(narrations) ==
    IF narrations = <<>> THEN 0 ELSE TextsIn(Head(narrations)) + TextsInAll(Tail(narrations))

\* C38: the narrations of the blocks pushed so far followed by the pending
\* texts, joined by newline, are the Say texts processed so far joined by
\* newline; the narrations of the returned blocks joined by newline are the
\* Say texts of the script joined by newline, and they hold as many texts as
\* the script has Say directives.
C38_NarrationKeptInOrder ==
    unit.kind = "group"
        => /\ NewlineJoined(NarrationsOf(unit.g.blocks) \o unit.g.narration)
                = NewlineJoined(SayTexts(SubSeq(unit.lines, 1, unit.i)))
           /\ unit.done
                => /\ NewlineJoined(NarrationsOf(unit.blocks))
                        = NewlineJoined(SayTexts(unit.lines))
                   /\ TextsInAll(NarrationsOf(unit.blocks)) = Len(SayTexts(unit.lines))

\* Say one, Section one, Run, Say two: the first text crossed the section
\* change into the Action block, the second was pending at the end.
C38_Witness ==
    /\ unit.kind = "group"
    /\ unit.done
    /\ unit.lines = <<Say(StrOne), Section(StrOne), Run, Say(StrTwo)>>
    /\ Len(unit.blocks) = 2
    /\ unit.blocks[1].narration = Some(StrOne)
    /\ unit.blocks[1].section = Some(StrOne)
    /\ unit.blocks[2].narration = Some(StrTwo)
    /\ unit.blocks[2].block_type = BtNarrationOnly

\* C39: with the agent as peer, a reply that step() has interpreted was
\* produced by the agent for the Execute that this same step() call sent.
C39_ReplyAnswersThisExecute ==
    (peer = "agent" /\ last.op = "step" /\ last.reply # None)
        => (last.tag.f = 1 /\ last.tag.q = "Execute")

\* The reply of an executor failure is on the wire or was read by the latest
\* call.
ExecutorFailed ==
    \/ \E c \in Conn : \E i \in DOMAIN conns[c].s2c :
            conns[c].s2c[i].t.q = "Execute" /\ conns[c].s2c[i].t.x = 0
    \/ last.reply # None /\ last.reply[1].type = "Ack" /\ last.reply[1].status = "Error"

\* C40: with the agent as peer, a step() that has returned with the presenter
\* connected, the connection not lost and no executor failure has moved the
\* cursor by exactly one when a block was left, and has returned Finished
\* with the cursor unchanged when none was: len(blocks) - cursor calls reach
\* the end, one block per call.
C40_StepsAdvanceToFinished ==
    (peer = "agent" /\ last.op = "step" /\ last.res # "Pending"
        /\ is_connected /\ last.cause = "none" /\ ~ExecutorFailed)
        => IF last.cur0 < last.total0
           THEN current = last.cur0 + 1 /\ last.res \in {"Executed", "NarrationOnly", "Paused"}
           ELSE current = last.cur0 /\ last.res = "Finished"

====
